-------------------------- MODULE AsyncLoggingProofs --------------------------
(***************************************************************************)
(* The safety of async_logging for any size of the buffers, any lengths of *)
(* lines and any limit of a flood: the spare buffers suffice, and no line  *)
(* is lost, doubled or overtaken.  Then that of log_file, for any          *)
(* roll_size_, flush_interval_, check_every_n_, length of a day and        *)
(* lengths of lines: files are rolled and flushed in time, and in order.   *)
(***************************************************************************)
EXTENDS AsyncLogging, LogFile, FiniteSetTheorems, SequenceTheorems, TLAPS

\* All lines of a are older than those of b.
Below(a, b) == \A l \in a, m \in b : l < m

Sorted(lines) == \A i, j \in DOMAIN lines : i < j => lines[i] < lines[j]

\* Buffers that hold lines in the order of their append.
Ordered(bs) ==
  /\ \A k \in DOMAIN bs : Sorted(bs[k].lines)
  /\ \A j, k \in DOMAIN bs : j < k => Below(LinesIn(bs[j]), LinesIn(bs[k]))

\* What the logging thread has still to write.
Unwritten == IF pc = "write" THEN toWrite ELSE <<>>

(* The spare buffers, empty or given away.  The next buffer is away only   *)
(* as long as there is a full one, so that there are two to be written     *)
(* when both spares are given away.                                        *)
SparesInv ==
  /\ current \in Buffer
  /\ next \in {Empty, Null} /\ (next = Null => buffers # <<>>)
  /\ control = "new" => pc = "off"
  /\ IF pc \in {"write", "recycle"}
       THEN /\ spare1 = Null /\ spare2 \in {Empty, Null}
            /\ toWrite # <<>>
            /\ spare2 = Null => Len(toWrite) >= 2
       ELSE spare1 = Empty /\ spare2 = Empty /\ toWrite = <<>>

\* Every line that was appended is in one place.
LinesInv ==
  /\ written \cup AllLines(Unwritten) \cup AllLines(buffers) \cup LinesIn(current)
       = (1..appended) \ dropped
  /\ dropped \subseteq 1..appended

\* The places come one after the other.
OrderInv ==
  /\ Ordered(Unwritten) /\ Ordered(buffers) /\ Sorted(current.lines)
  /\ Below(written, AllLines(Unwritten) \cup AllLines(buffers) \cup LinesIn(current))
  /\ Below(AllLines(Unwritten), AllLines(buffers) \cup LinesIn(current))
  /\ Below(AllLines(buffers), LinesIn(current))

\* The inductive invariant.
IInv == TypeOK /\ SparesInv /\ LinesInv /\ OrderInv

-------------------------------------------------------------------------------
(* Buffers and their lines                                                 *)

LEMMA EmptyBuffer ==
  /\ Empty \in Buffer /\ Empty # Null
  /\ LinesIn(Empty) = {} /\ Sorted(Empty.lines)
<1>1. Empty \in Buffer
  <2>1. <<>> \in Seq(Lines) /\ 0 \in 0..BufferSize
    BY LoggingAssumption
  <2> QED
    BY <2>1 DEF Empty, Buffer
<1>2. Empty # Null
  BY <1>1, NullAssumption
<1> QED
  BY <1>1, <1>2 DEF Empty, LinesIn, Sorted

LEMMA NoBuffers == AllLines(<<>>) = {} /\ Ordered(<<>>)
  BY DEF AllLines, Ordered

LEMMA BufferLines ==
  ASSUME NEW b \in Buffer
  PROVE  LinesIn(b) \subseteq Lines /\ b.lines \in Seq(Lines) /\ b.used \in 0..BufferSize
<1>1. b.lines \in Seq(Lines) /\ b.used \in 0..BufferSize
  BY DEF Buffer
<1> QED
  BY <1>1 DEF LinesIn

LEMMA BuffersLines ==
  ASSUME NEW bs \in Seq(Buffer)
  PROVE  AllLines(bs) \subseteq Lines
<1>1. \A k \in DOMAIN bs : bs[k] \in Buffer
  OBVIOUS
<1> QED
  BY <1>1, BufferLines DEF AllLines

\* A buffer is set aside behind others.
LEMMA SetAside ==
  ASSUME NEW bs \in Seq(Buffer), NEW b \in Buffer
  PROVE  /\ Append(bs, b) \in Seq(Buffer) /\ Append(bs, b) # <<>>
         /\ AllLines(Append(bs, b)) = AllLines(bs) \cup LinesIn(b)
         /\ Ordered(bs) /\ Sorted(b.lines) /\ Below(AllLines(bs), LinesIn(b))
              => Ordered(Append(bs, b))
<1> DEFINE n == Len(bs)
           t == Append(bs, b)
<1>1. /\ n \in Nat /\ DOMAIN bs = 1..n
      /\ t \in Seq(Buffer) /\ t # <<>>
      /\ DOMAIN t = 1..(n + 1) /\ t[n + 1] = b
      /\ \A k \in 1..n : t[k] = bs[k]
  OBVIOUS
<1> HIDE DEF t, n
<1>2. AllLines(t) = AllLines(bs) \cup LinesIn(b)
  <2>1. AllLines(t) \subseteq AllLines(bs) \cup LinesIn(b)
    <3> SUFFICES ASSUME NEW k \in 1..(n + 1)
                 PROVE  LinesIn(t[k]) \subseteq AllLines(bs) \cup LinesIn(b)
      BY <1>1 DEF AllLines
    <3>1. CASE k = n + 1
      BY <1>1, <3>1
    <3>2. CASE k # n + 1
      <4>1. k \in 1..n /\ t[k] = bs[k]
        BY <1>1, <3>2
      <4> QED
        BY <1>1, <4>1 DEF AllLines
    <3> QED
      BY <3>1, <3>2
  <2>2. AllLines(bs) \subseteq AllLines(t)
    <3> SUFFICES ASSUME NEW k \in 1..n PROVE LinesIn(bs[k]) \subseteq AllLines(t)
      BY <1>1 DEF AllLines
    <3>1. k \in 1..(n + 1) /\ t[k] = bs[k]
      BY <1>1
    <3> QED
      BY <1>1, <3>1 DEF AllLines
  <2>3. LinesIn(b) \subseteq AllLines(t)
    <3>1. n + 1 \in DOMAIN t /\ t[n + 1] = b
      BY <1>1
    <3> QED
      BY <3>1 DEF AllLines
  <2> QED
    BY <2>1, <2>2, <2>3
<1>3. ASSUME Ordered(bs), Sorted(b.lines), Below(AllLines(bs), LinesIn(b))
      PROVE  Ordered(t)
  <2>1. \A k \in 1..(n + 1) : Sorted(t[k].lines)
    BY <1>1, <1>3 DEF Ordered
  <2>2. ASSUME NEW j \in 1..(n + 1), NEW k \in 1..(n + 1), j < k
        PROVE  Below(LinesIn(t[j]), LinesIn(t[k]))
    <3>1. j \in 1..n /\ t[j] = bs[j]
      BY <1>1, <2>2
    <3>2. CASE k = n + 1
      <4>1. LinesIn(bs[j]) \subseteq AllLines(bs)
        BY <1>1, <3>1 DEF AllLines
      <4> QED
        BY <1>1, <1>3, <3>1, <3>2, <4>1 DEF Below
    <3>3. CASE k # n + 1
      <4>1. k \in 1..n
        BY <1>1, <3>3
      <4> QED
        BY <1>1, <1>3, <2>2, <3>1, <4>1 DEF Ordered
    <3> QED
      BY <3>2, <3>3
  <2> QED
    BY <1>1, <2>1, <2>2 DEF Ordered
<1> QED
  BY <1>1, <1>2, <1>3 DEF t

\* Buffers behind others.
LEMMA Joined ==
  ASSUME NEW s \in Seq(Buffer), NEW t \in Seq(Buffer)
  PROVE  /\ s \o t \in Seq(Buffer)
         /\ AllLines(s \o t) = AllLines(s) \cup AllLines(t)
         /\ Ordered(s) /\ Ordered(t) /\ Below(AllLines(s), AllLines(t)) => Ordered(s \o t)
<1> DEFINE n == Len(s)
           m == Len(t)
           u == s \o t
<1>1. /\ n \in Nat /\ m \in Nat /\ DOMAIN s = 1..n /\ DOMAIN t = 1..m
      /\ u \in Seq(Buffer) /\ DOMAIN u = 1..(n + m)
      /\ \A k \in 1..(n + m) : u[k] = IF k <= n THEN s[k] ELSE t[k - n]
  BY ConcatProperties
<1> HIDE DEF u, n, m
<1>2. AllLines(u) = AllLines(s) \cup AllLines(t)
  <2>1. AllLines(u) \subseteq AllLines(s) \cup AllLines(t)
    <3> SUFFICES ASSUME NEW k \in 1..(n + m)
                 PROVE  LinesIn(u[k]) \subseteq AllLines(s) \cup AllLines(t)
      BY <1>1 DEF AllLines
    <3>1. CASE k <= n
      <4>1. k \in 1..n /\ u[k] = s[k]
        BY <1>1, <3>1
      <4> QED
        BY <1>1, <4>1 DEF AllLines
    <3>2. CASE ~(k <= n)
      <4>1. k - n \in 1..m /\ u[k] = t[k - n]
        BY <1>1, <3>2
      <4> QED
        BY <1>1, <4>1 DEF AllLines
    <3> QED
      BY <3>1, <3>2
  <2>2. AllLines(s) \subseteq AllLines(u)
    <3> SUFFICES ASSUME NEW k \in 1..n PROVE LinesIn(s[k]) \subseteq AllLines(u)
      BY <1>1 DEF AllLines
    <3>1. k \in 1..(n + m) /\ u[k] = s[k]
      BY <1>1
    <3> QED
      BY <1>1, <3>1 DEF AllLines
  <2>3. AllLines(t) \subseteq AllLines(u)
    <3> SUFFICES ASSUME NEW k \in 1..m PROVE LinesIn(t[k]) \subseteq AllLines(u)
      BY <1>1 DEF AllLines
    <3>1. n + k \in 1..(n + m) /\ ~(n + k <= n) /\ (n + k) - n = k
      BY <1>1
    <3>2. u[n + k] = t[k]
      BY <1>1, <3>1
    <3> QED
      BY <1>1, <3>1, <3>2 DEF AllLines
  <2> QED
    BY <2>1, <2>2, <2>3
<1>3. ASSUME Ordered(s), Ordered(t), Below(AllLines(s), AllLines(t))
      PROVE  Ordered(u)
  <2>1. ASSUME NEW k \in 1..(n + m) PROVE Sorted(u[k].lines)
    <3>1. CASE k <= n
      <4>1. k \in 1..n /\ u[k] = s[k]
        BY <1>1, <2>1, <3>1
      <4> QED
        BY <1>1, <1>3, <4>1 DEF Ordered
    <3>2. CASE ~(k <= n)
      <4>1. k - n \in 1..m /\ u[k] = t[k - n]
        BY <1>1, <2>1, <3>2
      <4> QED
        BY <1>1, <1>3, <4>1 DEF Ordered
    <3> QED
      BY <3>1, <3>2
  <2>2. ASSUME NEW j \in 1..(n + m), NEW k \in 1..(n + m), j < k
        PROVE  Below(LinesIn(u[j]), LinesIn(u[k]))
    <3>1. CASE k <= n
      <4>1. j \in 1..n /\ k \in 1..n /\ u[j] = s[j] /\ u[k] = s[k]
        BY <1>1, <2>2, <3>1
      <4> QED
        BY <1>1, <1>3, <2>2, <4>1 DEF Ordered
    <3>2. CASE j <= n /\ ~(k <= n)
      <4>1. j \in 1..n /\ k - n \in 1..m /\ u[j] = s[j] /\ u[k] = t[k - n]
        BY <1>1, <2>2, <3>2
      <4>2. LinesIn(s[j]) \subseteq AllLines(s) /\ LinesIn(t[k - n]) \subseteq AllLines(t)
        BY <1>1, <4>1 DEF AllLines
      <4> QED
        BY <1>3, <4>1, <4>2 DEF Below
    <3>3. CASE ~(j <= n)
      <4>1. /\ j - n \in 1..m /\ k - n \in 1..m /\ j - n < k - n
            /\ u[j] = t[j - n] /\ u[k] = t[k - n]
        BY <1>1, <2>2, <3>3
      <4> QED
        BY <1>1, <1>3, <4>1 DEF Ordered
    <3> QED
      BY <1>1, <2>2, <3>1, <3>2, <3>3
  <2> QED
    BY <1>1, <2>1, <2>2 DEF Ordered
<1> QED
  BY <1>1, <1>2, <1>3 DEF u

\* The first buffers, and those behind them.
LEMMA Parted ==
  ASSUME NEW s \in Seq(Buffer), Len(s) > 2
  PROVE  LET first == SubSeq(s, 1, 2)
             rest == UNION {LinesIn(s[k]) : k \in 3..Len(s)}
         IN /\ first \in Seq(Buffer) /\ Len(first) = 2 /\ first # <<>>
            /\ AllLines(s) = AllLines(first) \cup rest
            /\ Ordered(s) => Ordered(first) /\ Below(AllLines(first), rest)
<1> DEFINE n == Len(s)
           first == SubSeq(s, 1, 2)
           rest == UNION {LinesIn(s[k]) : k \in 3..n}
<1>1. /\ n \in Nat /\ n > 2 /\ DOMAIN s = 1..n
      /\ first \in Seq(Buffer) /\ Len(first) = 2 /\ first # <<>> /\ DOMAIN first = 1..2
      /\ \A k \in 1..2 : first[k] = s[k]
  <2>1. n \in Nat /\ n > 2 /\ DOMAIN s = 1..n
    OBVIOUS
  <2>2. first \in Seq(Buffer) /\ Len(first) = 2 /\ \A k \in 1..2 : first[k] = s[k]
    BY <2>1, SubSeqProperties
  <2>3. DOMAIN first = 1..2 /\ first # <<>>
    BY <2>2
  <2> QED
    BY <2>1, <2>2, <2>3
<1> HIDE DEF n, first
<1>2. AllLines(first) \subseteq AllLines(s)
  <2> SUFFICES ASSUME NEW k \in 1..2 PROVE LinesIn(first[k]) \subseteq AllLines(s)
    BY <1>1 DEF AllLines
  <2>1. k \in 1..n /\ first[k] = s[k]
    BY <1>1
  <2> QED
    BY <1>1, <2>1 DEF AllLines
<1>3. rest \subseteq AllLines(s)
  <2> SUFFICES ASSUME NEW k \in 3..n PROVE LinesIn(s[k]) \subseteq AllLines(s)
    OBVIOUS
  <2>1. k \in 1..n
    BY <1>1
  <2> QED
    BY <1>1, <2>1 DEF AllLines
<1>4. AllLines(s) \subseteq AllLines(first) \cup rest
  <2> SUFFICES ASSUME NEW k \in 1..n PROVE LinesIn(s[k]) \subseteq AllLines(first) \cup rest
    BY <1>1 DEF AllLines
  <2>1. CASE k <= 2
    <3>1. k \in 1..2 /\ first[k] = s[k]
      BY <1>1, <2>1
    <3> QED
      BY <1>1, <3>1 DEF AllLines
  <2>2. CASE ~(k <= 2)
    <3>1. k \in 3..n
      BY <1>1, <2>2
    <3> QED
      BY <3>1
  <2> QED
    BY <2>1, <2>2
<1>5. ASSUME Ordered(s)
      PROVE  Ordered(first) /\ Below(AllLines(first), rest)
  <2>1. Ordered(first)
    BY <1>1, <1>5 DEF Ordered
  <2>2. ASSUME NEW j \in 1..2, NEW k \in 3..n
        PROVE  Below(LinesIn(first[j]), LinesIn(s[k]))
    <3>1. j \in 1..n /\ k \in 1..n /\ j < k /\ first[j] = s[j]
      BY <1>1
    <3> QED
      BY <1>1, <1>5, <3>1 DEF Ordered
  <2> QED
    BY <1>1, <2>1, <2>2 DEF AllLines, Below
<1> QED
  BY <1>1, <1>2, <1>3, <1>4, <1>5 DEF n, first

\* A line is added to a buffer.
LEMMA LineAdded ==
  ASSUME TypeOK, appended < MaxLines, NEW len \in Lengths, NEW b \in Buffer, Fits(b, len)
  PROVE  /\ Filled(b, len) \in Buffer
         /\ LinesIn(Filled(b, len)) = LinesIn(b) \cup {appended + 1}
         /\ Sorted(b.lines) /\ LinesIn(b) \subseteq 1..appended => Sorted(Filled(b, len).lines)
<1> DEFINE lines == b.lines
           more == Append(lines, appended + 1)
           n == Len(lines)
<1>1. /\ appended \in Nat /\ appended + 1 \in Lines
      /\ lines \in Seq(Lines) /\ b.used \in 0..BufferSize
  BY BufferLines, LoggingAssumption DEF TypeOK, Lines
<1>2. Filled(b, len).lines = more /\ Filled(b, len).used = b.used + len
  BY DEF Filled
<1>3. b.used + len \in 0..BufferSize
  BY <1>1, LoggingAssumption DEF Fits
<1>4. /\ n \in Nat /\ DOMAIN lines = 1..n /\ DOMAIN more = 1..(n + 1)
      /\ more \in Seq(Lines)
      /\ more[n + 1] = appended + 1 /\ \A k \in 1..n : more[k] = lines[k]
  BY <1>1
<1>5. Filled(b, len) \in Buffer
  BY <1>3, <1>4 DEF Filled, Buffer
<1> HIDE DEF more, n, lines
<1>6. {more[k] : k \in 1..(n + 1)} = {lines[k] : k \in 1..n} \cup {appended + 1}
  BY <1>4
<1>7. LinesIn(Filled(b, len)) = LinesIn(b) \cup {appended + 1}
  BY <1>2, <1>4, <1>6 DEF LinesIn, lines
<1>8. ASSUME Sorted(lines), LinesIn(b) \subseteq 1..appended
      PROVE  Sorted(more)
  <2> SUFFICES ASSUME NEW i \in 1..(n + 1), NEW j \in 1..(n + 1), i < j
               PROVE  more[i] < more[j]
    BY <1>4 DEF Sorted
  <2>1. i \in 1..n /\ more[i] = lines[i]
    BY <1>4
  <2>2. CASE j = n + 1
    <3>1. lines[i] \in 1..appended
      BY <1>4, <1>8, <2>1 DEF LinesIn, lines
    <3> QED
      BY <1>1, <1>4, <2>1, <2>2, <3>1
  <2>3. CASE j # n + 1
    <3>1. j \in 1..n
      BY <1>4, <2>3
    <3> QED
      BY <1>4, <1>8, <2>1, <3>1 DEF Sorted
  <2> QED
    BY <2>2, <2>3
<1> QED
  BY <1>2, <1>5, <1>7, <1>8 DEF lines

\* Where the lines are, and that none is newer than the last one appended.
LEMMA Whereabouts ==
  ASSUME IInv
  PROVE  /\ Unwritten \in Seq(Buffer) /\ buffers \in Seq(Buffer) /\ current \in Buffer
         /\ appended \in Nat /\ 1..appended \subseteq Lines
         /\ 1..(appended + 1) = (1..appended) \cup {appended + 1}
         /\ appended + 1 \notin 1..appended
         /\ written \subseteq 1..appended /\ AllLines(Unwritten) \subseteq 1..appended
         /\ AllLines(buffers) \subseteq 1..appended /\ LinesIn(current) \subseteq 1..appended
<1>1. Unwritten \in Seq(Buffer)
  BY DEF IInv, TypeOK, Unwritten
<1>2. appended \in Nat /\ 1..appended \subseteq Lines
  BY LoggingAssumption DEF IInv, TypeOK, Lines
<1>3. /\ 1..(appended + 1) = (1..appended) \cup {appended + 1}
      /\ appended + 1 \notin 1..appended
  BY <1>2
<1>4. buffers \in Seq(Buffer) /\ current \in Buffer
  BY DEF IInv, TypeOK, SparesInv
<1>5. written \cup AllLines(Unwritten) \cup AllLines(buffers) \cup LinesIn(current)
        \subseteq 1..appended
  BY DEF IInv, LinesInv
<1> QED
  BY <1>1, <1>2, <1>3, <1>4, <1>5

\* A step that moves no line.
LEMMA Unmoved ==
  ASSUME IInv, TypeOK', SparesInv', UNCHANGED <<buffers, current, written, appended, dropped>>,
         Unwritten' = Unwritten
  PROVE  IInv'
<1>1. LinesInv'
  BY DEF IInv, LinesInv, AllLines, LinesIn
<1>2. OrderInv'
  BY DEF IInv, OrderInv, Ordered, Sorted, Below, AllLines, LinesIn
<1> QED
  BY <1>1, <1>2 DEF IInv

-------------------------------------------------------------------------------
(* The steps                                                               *)

LEMMA InitIInv == Init => IInv
<1> SUFFICES ASSUME Init PROVE IInv
  OBVIOUS
<1>1. TypeOK
  <2>1. buffers \in Seq(Buffer) /\ toWrite \in Seq(Buffer)
    BY DEF Init
  <2>2. appended \in 0..MaxLines
    BY LoggingAssumption DEF Init
  <2> QED
    BY <2>1, <2>2, EmptyBuffer DEF Init, TypeOK, Places
<1>2. SparesInv
  BY EmptyBuffer DEF Init, SparesInv
<1>3. Unwritten = <<>> /\ AllLines(<<>>) = {} /\ Ordered(<<>>)
  BY NoBuffers DEF Init, Unwritten
<1>4. LinesInv
  BY <1>3, EmptyBuffer DEF Init, LinesInv
<1>5. OrderInv
  BY <1>3, EmptyBuffer DEF Init, OrderInv, Below
<1> QED
  BY <1>1, <1>2, <1>4, <1>5 DEF IInv

LEMMA AppendFitsKeeps ==
  ASSUME IInv, NEW len \in Lengths, AppendFits(len)
  PROVE  IInv'
<1> DEFINE new == appended + 1
<1>1. /\ current' \in Buffer /\ LinesIn(current') = LinesIn(current) \cup {new}
      /\ Sorted(current'.lines)
  <2>1. TypeOK /\ appended < MaxLines /\ current \in Buffer /\ Fits(current, len)
    BY Whereabouts DEF IInv, AppendFits
  <2>2. Sorted(current.lines) /\ LinesIn(current) \subseteq 1..appended
    BY Whereabouts DEF IInv, OrderInv
  <2>3. current' = Filled(current, len)
    BY DEF AppendFits
  <2> QED
    BY <2>1, <2>2, <2>3, LineAdded
<1>2. TypeOK'
  BY <1>1, LoggingAssumption DEF IInv, TypeOK, AppendFits, threadVars
<1>3. SparesInv'
  BY <1>1 DEF IInv, SparesInv, AppendFits, threadVars
<1>4. /\ appended' = new /\ dropped' = dropped /\ written' = written
      /\ Unwritten' = Unwritten /\ buffers' = buffers
  BY DEF AppendFits, Unwritten, threadVars
<1>5. LinesInv'
  BY <1>1, <1>4, Whereabouts DEF IInv, LinesInv
<1>6. Below(1..appended, {new})
  BY Whereabouts DEF Below
<1>7. OrderInv'
  <2>1. Below(written, {new}) /\ Below(AllLines(Unwritten), {new}) /\ Below(AllLines(buffers), {new})
    BY <1>6, Whereabouts DEF Below
  <2> QED
    BY <1>1, <1>4, <2>1 DEF IInv, OrderInv, Below
<1> QED
  BY <1>2, <1>3, <1>5, <1>7 DEF IInv

LEMMA AppendFullKeeps ==
  ASSUME IInv, NEW len \in Lengths, AppendFull(len)
  PROVE  IInv'
<1> DEFINE new == appended + 1
<1>1. Fresh = Empty
  BY DEF IInv, SparesInv, Fresh
<1>2. /\ current \in Buffer /\ buffers \in Seq(Buffer) /\ Sorted(current.lines)
      /\ Ordered(buffers) /\ Below(AllLines(buffers), LinesIn(current))
  BY Whereabouts DEF IInv, OrderInv
<1>3. /\ buffers' \in Seq(Buffer) /\ buffers' # <<>> /\ Ordered(buffers')
      /\ AllLines(buffers') = AllLines(buffers) \cup LinesIn(current)
  BY <1>2, SetAside DEF AppendFull
<1>4. /\ appended' = new /\ written' = written /\ Unwritten' = Unwritten
      /\ next' = Null /\ spare1' = spare1 /\ spare2' = spare2 /\ toWrite' = toWrite
      /\ pc' = pc /\ control' = control /\ running' = running
  BY DEF AppendFull, Unwritten, threadVars
<1>5. /\ current' \in Buffer /\ Sorted(current'.lines)
      /\ \/ LinesIn(current') = {new} /\ dropped' = dropped
         \/ LinesIn(current') = {} /\ dropped' = dropped \cup {new}
  <2>1. CASE Fits(Empty, len)
    <3>1. TypeOK /\ appended < MaxLines
      BY DEF IInv, AppendFull
    <3>2. current' = Filled(Empty, len) /\ dropped' = dropped
      BY <1>1, <2>1 DEF AppendFull
    <3> QED
      BY <2>1, <3>1, <3>2, EmptyBuffer, LineAdded
  <2>2. CASE ~Fits(Empty, len)
    BY <1>1, <2>2, EmptyBuffer DEF AppendFull, Filled
  <2> QED
    BY <2>1, <2>2
<1>6. new \in Lines /\ new \in 0..MaxLines
  BY LoggingAssumption DEF IInv, TypeOK, AppendFull, Lines
<1>7. TypeOK'
  <2>1. dropped' \subseteq Lines /\ signaled' \in BOOLEAN
    BY <1>5, <1>6 DEF IInv, TypeOK, AppendFull, Notify
  <2> QED
    BY <1>3, <1>4, <1>5, <1>6, <2>1 DEF IInv, TypeOK
<1>8. SparesInv'
  BY <1>3, <1>4, <1>5 DEF IInv, SparesInv
<1>9. LinesInv'
  <2>1. /\ written \cup AllLines(Unwritten) \cup AllLines(buffers) \cup LinesIn(current)
             = (1..appended) \ dropped
        /\ dropped \subseteq 1..appended
    BY DEF IInv, LinesInv
  <2>2. 1..new = (1..appended) \cup {new} /\ new \notin 1..appended
    BY Whereabouts
  <2> HIDE DEF new
  <2> QED
    BY <1>3, <1>4, <1>5, <2>1, <2>2 DEF LinesInv
<1>10. OrderInv'
  <2>1. Below(1..appended, {new})
    BY Whereabouts DEF Below
  <2>2. Below(1..appended, LinesIn(current'))
    BY <1>5, <2>1 DEF Below
  <2>3. /\ Below(written, LinesIn(current')) /\ Below(AllLines(Unwritten), LinesIn(current'))
        /\ Below(AllLines(buffers) \cup LinesIn(current), LinesIn(current'))
    BY <2>2, Whereabouts DEF Below
  <2> QED
    BY <1>3, <1>4, <1>5, <2>3 DEF IInv, OrderInv, Below
<1> QED
  BY <1>7, <1>8, <1>9, <1>10 DEF IInv

\* The exchange, whichever way the wait ended.
LEMMA ExchangeKeeps ==
  ASSUME IInv, pc \in {"collect", "waiting"}, Exchange, signaled' \in BOOLEAN
  PROVE  IInv'
<1>1. /\ spare1 = Empty /\ spare2 = Empty /\ toWrite = <<>> /\ Unwritten = <<>>
      /\ control # "new"
  BY DEF IInv, SparesInv, Unwritten
<1>2. /\ current \in Buffer /\ buffers \in Seq(Buffer) /\ Sorted(current.lines)
      /\ Ordered(buffers) /\ Below(AllLines(buffers), LinesIn(current))
  BY Whereabouts DEF IInv, OrderInv
<1>3. /\ toWrite' \in Seq(Buffer) /\ toWrite' # <<>> /\ Ordered(toWrite')
      /\ AllLines(toWrite') = AllLines(buffers) \cup LinesIn(current)
  BY <1>2, SetAside DEF Exchange
<1>4. /\ Unwritten' = toWrite' /\ buffers' = <<>> /\ current' = Empty
      /\ spare1' = Null /\ next' = Empty /\ spare2' = (IF next = Null THEN Null ELSE Empty)
      /\ UNCHANGED <<running, control, written, appended, dropped>> /\ pc' = "write"
  BY <1>1 DEF IInv, SparesInv, Exchange, Spare2After, Unwritten
<1>5. AllLines(buffers') = {} /\ Ordered(buffers') /\ buffers' \in Seq(Buffer)
  BY <1>4, NoBuffers
<1>6. TypeOK'
  BY <1>3, <1>4, <1>5, EmptyBuffer DEF IInv, TypeOK, Places
<1>7. next = Null => Len(toWrite') >= 2
  <2>1. next = Null => Len(buffers) >= 1
    BY <1>2 DEF IInv, SparesInv
  <2>2. Len(toWrite') = Len(buffers) + 1
    BY <1>2 DEF Exchange
  <2> QED
    BY <1>2, <2>1, <2>2
<1>8. SparesInv'
  BY <1>1, <1>3, <1>4, <1>7, EmptyBuffer DEF SparesInv
<1>9. LinesInv'
  BY <1>1, <1>3, <1>4, <1>5, EmptyBuffer, NoBuffers DEF IInv, LinesInv
<1>10. OrderInv'
  BY <1>1, <1>3, <1>4, <1>5, EmptyBuffer, NoBuffers DEF IInv, OrderInv, Below
<1> QED
  BY <1>6, <1>8, <1>9, <1>10 DEF IInv

\* A flood: what is left is written, and the rest is known to be dropped.
LEMMA DropFloodKeeps ==
  ASSUME IInv, DropFlood
  PROVE  IInv'
<1> DEFINE rest == UNION {LinesIn(toWrite[k]) : k \in 3..Len(toWrite)}
<1>1. toWrite \in Seq(Buffer) /\ Len(toWrite) > 2 /\ Unwritten = toWrite
  BY LoggingAssumption DEF IInv, TypeOK, DropFlood, Unwritten
<1>2. /\ UNCHANGED <<running, control, pc, signaled, current, next, buffers, spare1, spare2,
                     written, appended>>
      /\ pc = "write" /\ toWrite' = SubSeq(toWrite, 1, 2) /\ dropped' = dropped \cup rest
      /\ Unwritten' = toWrite'
  BY DEF DropFlood, producerVars, Unwritten
<1>3. /\ toWrite' \in Seq(Buffer) /\ Len(toWrite') = 2 /\ toWrite' # <<>>
      /\ AllLines(toWrite) = AllLines(toWrite') \cup rest
      /\ Ordered(toWrite') /\ Below(AllLines(toWrite'), rest)
  <2>1. Ordered(toWrite)
    BY <1>1 DEF IInv, OrderInv
  <2> QED
    BY <1>1, <1>2, <2>1, Parted
<1> HIDE DEF rest
<1>4. rest \subseteq 1..appended
  BY <1>1, <1>3, Whereabouts
<1>5. TypeOK'
  BY <1>2, <1>3, <1>4, Whereabouts DEF IInv, TypeOK
<1>6. SparesInv'
  BY <1>2, <1>3 DEF IInv, SparesInv
<1>7. /\ rest \cap written = {} /\ rest \cap AllLines(toWrite') = {}
      /\ rest \cap AllLines(buffers) = {} /\ rest \cap LinesIn(current) = {}
  <2>1. /\ Below(written, rest) /\ Below(AllLines(toWrite'), rest)
        /\ Below(rest, AllLines(buffers)) /\ Below(rest, LinesIn(current))
    BY <1>1, <1>3 DEF IInv, OrderInv, Below
  <2>2. ASSUME NEW l \in rest PROVE ~(l < l)
    BY <1>4, <2>2
  <2> QED
    BY <2>1, <2>2 DEF Below
<1>8. LinesInv'
  <2>1. /\ written \cup AllLines(toWrite') \cup rest \cup AllLines(buffers) \cup LinesIn(current)
             = (1..appended) \ dropped
        /\ dropped \subseteq 1..appended
    BY <1>1, <1>3 DEF IInv, LinesInv
  <2> QED
    BY <1>2, <1>4, <1>7, <2>1 DEF LinesInv
<1>9. OrderInv'
  BY <1>1, <1>2, <1>3 DEF IInv, OrderInv, Below
<1> QED
  BY <1>5, <1>6, <1>8, <1>9 DEF IInv

LEMMA WriteBuffersKeeps ==
  ASSUME IInv, WriteBuffers
  PROVE  IInv'
<1>1. /\ UNCHANGED <<running, control, signaled, current, next, buffers, spare1, spare2,
                     toWrite, appended, dropped>>
      /\ Unwritten = toWrite /\ Unwritten' = <<>> /\ pc = "write" /\ pc' = "recycle"
      /\ written' = written \cup AllLines(toWrite)
  BY DEF WriteBuffers, producerVars, Unwritten
<1>2. TypeOK'
  <2>1. AllLines(toWrite) \subseteq Lines
    BY BuffersLines DEF IInv, TypeOK
  <2> QED
    BY <1>1, <2>1 DEF IInv, TypeOK, Places
<1>3. SparesInv'
  BY <1>1 DEF IInv, SparesInv
<1>4. LinesInv'
  BY <1>1, NoBuffers DEF IInv, LinesInv
<1>5. OrderInv'
  BY <1>1, NoBuffers DEF IInv, OrderInv, Below
<1> QED
  BY <1>2, <1>3, <1>4, <1>5 DEF IInv

LEMMA RecycleKeeps ==
  ASSUME IInv, Recycle
  PROVE  IInv'
<1>1. /\ UNCHANGED <<running, control, signaled, current, next, buffers, written, appended,
                     dropped>>
      /\ pc = "recycle" /\ pc' = "check" /\ toWrite' = <<>>
      /\ Unwritten = <<>> /\ Unwritten' = <<>>
  BY DEF Recycle, producerVars, Unwritten
<1>2. spare1' = Empty /\ spare2' = Empty
  BY <1>1 DEF IInv, SparesInv, Recycle, Reset
<1>3. TypeOK'
  <2>1. toWrite' \in Seq(Buffer)
    BY <1>1
  <2> QED
    BY <1>1, <1>2, <2>1, EmptyBuffer DEF IInv, TypeOK, Places
<1>4. SparesInv'
  BY <1>1, <1>2 DEF IInv, SparesInv
<1> QED
  BY <1>1, <1>3, <1>4, Unmoved

\* The steps of start, stop and the loop's test, which move no buffer.
LEMMA ControlKeeps ==
  ASSUME IInv, Start \/ Stop \/ StopNotify \/ Join \/ Check \/ CollectWait
  PROVE  IInv'
<1>1. CASE Start
  <2>1. TypeOK'
    BY <1>1 DEF IInv, TypeOK, Start, producerVars, threadVars, Places
  <2>2. SparesInv'
    BY <1>1 DEF IInv, SparesInv, Start, producerVars, threadVars
  <2>3. Unwritten' = Unwritten
    BY <1>1 DEF IInv, SparesInv, Start, Unwritten
  <2> QED
    BY <1>1, <2>1, <2>2, <2>3, Unmoved DEF Start, producerVars, threadVars
<1>2. CASE Stop
  <2>1. TypeOK'
    BY <1>2 DEF IInv, TypeOK, Stop, producerVars, threadVars
  <2>2. SparesInv'
    BY <1>2 DEF IInv, SparesInv, Stop, producerVars, threadVars
  <2>3. Unwritten' = Unwritten
    BY <1>2 DEF Stop, Unwritten, threadVars
  <2> QED
    BY <1>2, <2>1, <2>2, <2>3, Unmoved DEF Stop, producerVars, threadVars
<1>3. CASE StopNotify
  <2>1. TypeOK'
    BY <1>3 DEF IInv, TypeOK, StopNotify, Notify, producerVars, threadVars
  <2>2. SparesInv'
    BY <1>3 DEF IInv, SparesInv, StopNotify, producerVars, threadVars
  <2>3. Unwritten' = Unwritten
    BY <1>3 DEF StopNotify, Unwritten, threadVars
  <2> QED
    BY <1>3, <2>1, <2>2, <2>3, Unmoved DEF StopNotify, producerVars, threadVars
<1>4. CASE Join
  <2>1. TypeOK'
    BY <1>4 DEF IInv, TypeOK, Join, producerVars, threadVars
  <2>2. SparesInv'
    BY <1>4 DEF IInv, SparesInv, Join, producerVars, threadVars
  <2>3. Unwritten' = Unwritten
    BY <1>4 DEF Join, Unwritten, threadVars
  <2> QED
    BY <1>4, <2>1, <2>2, <2>3, Unmoved DEF Join, producerVars, threadVars
<1>5. CASE Check
  <2>1. TypeOK'
    BY <1>5 DEF IInv, TypeOK, Check, producerVars, threadVars, Places
  <2>2. SparesInv'
    BY <1>5 DEF IInv, SparesInv, Check, producerVars, threadVars
  <2>3. Unwritten' = Unwritten
    BY <1>5 DEF Check, Unwritten, threadVars
  <2> QED
    BY <1>5, <2>1, <2>2, <2>3, Unmoved DEF Check, producerVars, threadVars
<1>6. CASE CollectWait
  <2>1. TypeOK'
    BY <1>6 DEF IInv, TypeOK, CollectWait, producerVars, threadVars, Places
  <2>2. SparesInv'
    BY <1>6 DEF IInv, SparesInv, CollectWait, producerVars, threadVars
  <2>3. Unwritten' = Unwritten
    BY <1>6 DEF CollectWait, Unwritten, threadVars
  <2> QED
    BY <1>6, <2>1, <2>2, <2>3, Unmoved DEF CollectWait, producerVars, threadVars
<1> QED
  BY <1>1, <1>2, <1>3, <1>4, <1>5, <1>6

LEMMA NextIInv == IInv /\ [Next]_vars => IInv'
<1> SUFFICES ASSUME IInv, [Next]_vars PROVE IInv'
  OBVIOUS
<1>1. ASSUME NEW len \in Lengths, AppendFits(len) \/ AppendFull(len) PROVE IInv'
  BY <1>1, AppendFitsKeeps, AppendFullKeeps
<1>2. ASSUME CollectNow \/ WaitNotified \/ WaitTimeout PROVE IInv'
  <2>1. Exchange /\ pc \in {"collect", "waiting"}
    BY <1>2 DEF CollectNow, WaitNotified, WaitTimeout
  <2>2. signaled' \in BOOLEAN
    BY <1>2 DEF IInv, TypeOK, CollectNow, WaitNotified, WaitTimeout
  <2> QED
    BY <2>1, <2>2, ExchangeKeeps
<1>3. ASSUME UNCHANGED vars PROVE IInv'
  <2>1. TypeOK' /\ SparesInv' /\ Unwritten' = Unwritten
    BY <1>3 DEF IInv, TypeOK, SparesInv, Unwritten, vars, producerVars, threadVars
  <2> QED
    BY <1>3, <2>1, Unmoved DEF vars, producerVars, threadVars
<1> QED
  BY <1>1, <1>2, <1>3, ControlKeeps, DropFloodKeeps, WriteBuffersKeeps, RecycleKeeps
     DEF Next, LoggingThread

-------------------------------------------------------------------------------
(* What the invariant says of what is on its way to the file.              *)
LEMMA InTransitOrdered ==
  ASSUME IInv
  PROVE  /\ InTransit \in Seq(Buffer) /\ Ordered(InTransit)
         /\ AllLines(InTransit) = AllLines(Unwritten) \cup AllLines(buffers) \cup LinesIn(current)
<1> DEFINE last == <<current>>
           old == Unwritten \o buffers
<1>1. current # Null /\ InTransit = old \o last
  BY NullAssumption DEF IInv, SparesInv, InTransit, Unwritten
<1>2. /\ Unwritten \in Seq(Buffer) /\ buffers \in Seq(Buffer) /\ current \in Buffer
      /\ Ordered(Unwritten) /\ Ordered(buffers) /\ Sorted(current.lines)
      /\ Below(AllLines(Unwritten), AllLines(buffers) \cup LinesIn(current))
      /\ Below(AllLines(buffers), LinesIn(current))
  BY Whereabouts DEF IInv, OrderInv
<1>3. last \in Seq(Buffer) /\ Ordered(last) /\ AllLines(last) = LinesIn(current)
  <2>1. <<>> \in Seq(Buffer) /\ last = Append(<<>>, current)
    OBVIOUS
  <2>2. Below(AllLines(<<>>), LinesIn(current))
    BY NoBuffers DEF Below
  <2> QED
    BY <1>2, <2>1, <2>2, NoBuffers, SetAside
<1>4. /\ old \in Seq(Buffer) /\ Ordered(old)
      /\ AllLines(old) = AllLines(Unwritten) \cup AllLines(buffers)
  <2>1. Below(AllLines(Unwritten), AllLines(buffers))
    BY <1>2 DEF Below
  <2> QED
    BY <1>2, <2>1, Joined
<1> HIDE DEF last, old
<1>5. Below(AllLines(old), AllLines(last))
  BY <1>2, <1>3, <1>4 DEF Below
<1> QED
  BY <1>1, <1>3, <1>4, <1>5, Joined

LEMMA Invariant == Spec => []IInv
  BY InitIInv, NextIInv, PTL DEF Spec

(* The asserts of thread_func hold and append never finds current_buffer_  *)
(* null: the buffers of the producers and of the logging thread add up.    *)
THEOREM SparesSuffice == Spec => []BuffersConsistent
<1>1. IInv => BuffersConsistent
  BY NullAssumption, EmptyBuffer DEF IInv, SparesInv, BuffersConsistent, SparesThere
<1> QED
  BY <1>1, Invariant, PTL

(* Between append and the log file no line is lost, doubled or overtaken,  *)
(* but for those thrown away.                                              *)
THEOREM LinesKept == Spec => []LinesInOrder
<1>1. ASSUME IInv PROVE LinesInOrder
  <2>1. /\ InTransit \in Seq(Buffer) /\ Ordered(InTransit)
        /\ AllLines(InTransit) = AllLines(Unwritten) \cup AllLines(buffers) \cup LinesIn(current)
    BY <1>1, InTransitOrdered
  <2>2. written \cup AllLines(InTransit) = (1..appended) \ dropped
    BY <1>1, <2>1 DEF IInv, LinesInv
  <2>3. \A l \in written, m \in AllLines(InTransit) : l < m
    BY <1>1, <2>1 DEF IInv, OrderInv, Below
  <2> QED
    BY <2>1, <2>2, <2>3 DEF LinesInOrder, Ordered, Sorted, Below
<1> QED
  BY <1>1, Invariant, PTL

-------------------------------------------------------------------------------
(* The file behind it: log_file.                                           *)

(* The open file is the last one that was rolled, on the day that          *)
(* start_of_period_ says.                                                  *)
OpenInv ==
  /\ Open.name = lastRoll
  /\ startOfPeriod = Period(lastRoll)
  /\ \A j \in DOMAIN files : files[j].first <= Len(stamps) + 1
  /\ Len(stamps) <= MaxFileLines

\* Lines are in the order of their seconds, as long as the clock is.
InTimeOrder ==
  /\ lastRoll <= lastFlush /\ lastFlush <= clock
  /\ \A k \in 1..Len(stamps) : stamps[k] <= clock
  /\ \A k \in Open.first..Len(stamps) : lastRoll <= stamps[k]
  /\ \A k \in (durable + 1)..Len(stamps) : lastFlush <= stamps[k]

(* Lines that come late for the first that was not flushed, and lines of   *)
(* another day than the file's, are among those that count_ has counted.   *)
CountInv ==
  /\ \A k \in (durable + 1)..Len(stamps) :
       stamps[k] - stamps[durable + 1] > FlushInterval => k > Len(stamps) - count
  /\ \A k \in Open.first..Len(stamps) :
       Period(stamps[k]) # Period(Open.name) => k > Len(stamps) - count

\* What holds while the clock was not set back.
Steady == steps = 0 => InTimeOrder /\ CountInv /\ OversizeInOneSecond

\* The inductive invariant.
FileInv == FileTypeOK /\ FilesInOrder /\ OpenInv /\ Steady

-------------------------------------------------------------------------------
(* Days.                                                                   *)

LEMMA DivFacts ==
  ASSUME NEW n \in Nat \ {0}, NEW a \in Nat
  PROVE  a \div n \in Nat /\ n * (a \div n) <= a /\ a < n * (a \div n) + n
  OBVIOUS

LEMMA DivMonotone ==
  ASSUME NEW n \in Nat \ {0}, NEW a \in Nat, NEW b \in Nat, a <= b
  PROVE  a \div n <= b \div n
<1>1. PICK p \in Nat : p = a \div n /\ n * p <= a
  BY DivFacts
<1>2. PICK q \in Nat : q = b \div n /\ b < n * q + n
  BY DivFacts
<1>3. ASSUME p >= q + 1 PROVE FALSE
  <2>1. n * p >= n * (q + 1)
    BY <1>3
  <2>2. n * (q + 1) = n * q + n
    OBVIOUS
  <2> QED
    BY <1>1, <1>2, <2>1, <2>2
<1> QED
  BY <1>1, <1>2, <1>3

\* The start of a day is not after any of its seconds.
LEMMA PeriodType == ASSUME NEW time \in Times PROVE Period(time) \in 0..MaxTime
<1>1. time \in Nat /\ time <= MaxTime /\ RollPerSeconds \in Nat \ {0}
  BY LogFileAssumption DEF Times
<1>2. PICK p \in Nat : p = time \div RollPerSeconds /\ RollPerSeconds * p <= time
  BY <1>1, DivFacts
<1>3. Period(time) = RollPerSeconds * p /\ RollPerSeconds * p \in Nat
  BY <1>1, <1>2 DEF Period
<1> QED
  BY <1>1, <1>2, <1>3, LogFileAssumption

\* What lies between two seconds of one day is of that day.
LEMMA SameDay ==
  ASSUME NEW a \in Times, NEW b \in Times, NEW c \in Times,
         a <= b, b <= c, Period(a) = Period(c)
  PROVE  Period(b) = Period(a)
<1>1. a \in Nat /\ b \in Nat /\ c \in Nat /\ RollPerSeconds \in Nat \ {0}
  BY LogFileAssumption DEF Times
<1>2. PICK p \in Nat : p = a \div RollPerSeconds
  BY <1>1, DivFacts
<1>3. PICK q \in Nat : q = b \div RollPerSeconds
  BY <1>1, DivFacts
<1>4. PICK r \in Nat : r = c \div RollPerSeconds
  BY <1>1, DivFacts
<1>5. p <= q /\ q <= r
  BY <1>1, <1>2, <1>3, <1>4, DivMonotone
<1>6. p * RollPerSeconds = r * RollPerSeconds
  BY <1>2, <1>4 DEF Period
<1>7. ASSUME p + 1 <= r PROVE FALSE
  <2>1. (p + 1) * RollPerSeconds <= r * RollPerSeconds
    BY <1>1, <1>7
  <2>2. (p + 1) * RollPerSeconds = p * RollPerSeconds + RollPerSeconds
    BY <1>1
  <2> QED
    BY <1>1, <1>6, <2>1, <2>2
<1>8. q = p
  BY <1>5, <1>7
<1> QED
  BY <1>2, <1>3, <1>8 DEF Period

-------------------------------------------------------------------------------
LEMMA InitFileInv == FileInit => FileInv
<1> SUFFICES ASSUME FileInit PROVE FileInv
  OBVIOUS
<1>1. /\ files = <<[name |-> clock, first |-> 1]>> /\ Len(files) = 1 /\ DOMAIN files = {1}
      /\ Open = [name |-> clock, first |-> 1] /\ Len(stamps) = 0 /\ clock \in Times
  BY DEF FileInit, Open
<1>2. FileTypeOK
  <2>1. files \in Seq(File) /\ files # <<>>
    BY <1>1, LogFileAssumption DEF File
  <2>2. stamps \in Seq(Times)
    BY DEF FileInit
  <2> QED
    BY <1>1, <2>1, <2>2, PeriodType, LogFileAssumption DEF FileInit, FileTypeOK
<1>3. FilesInOrder
  BY <1>1 DEF FilesInOrder
<1>4. OpenInv
  BY <1>1, LogFileAssumption DEF OpenInv, FileInit
<1>5. Steady
  BY <1>1 DEF Steady, InTimeOrder, CountInv, OversizeInOneSecond, FileInit, Times
<1> QED
  BY <1>2, <1>3, <1>4, <1>5 DEF FileInv

\* Numbers, as the proofs need them.
LEMMA Numbers ==
  ASSUME FileTypeOK
  PROVE  /\ clock \in Nat /\ clock <= MaxTime /\ clock > 0
         /\ lastRoll \in Nat /\ lastFlush \in Nat /\ startOfPeriod \in Nat
         /\ count \in Nat /\ count < CheckEveryN /\ writtenBytes \in Nat
         /\ durable \in Nat /\ Len(stamps) \in Nat /\ durable <= Len(stamps)
         /\ \A k \in 1..Len(stamps) : stamps[k] \in Times /\ stamps[k] \in Nat
         /\ Len(files) \in Nat /\ Len(files) > 0 /\ DOMAIN files = 1..Len(files)
         /\ Open \in File /\ Open.first \in Nat /\ Open.first > 0
         /\ RollSize \in Nat /\ FlushInterval \in Nat /\ CheckEveryN \in Nat \ {0}
<1>1. /\ clock \in Nat /\ clock <= MaxTime /\ clock > 0
      /\ lastRoll \in Nat /\ lastFlush \in Nat /\ startOfPeriod \in Nat
      /\ count \in Nat /\ count < CheckEveryN /\ writtenBytes \in Nat
      /\ RollSize \in Nat /\ FlushInterval \in Nat /\ CheckEveryN \in Nat \ {0}
  BY LogFileAssumption DEF FileTypeOK, Times
<1>2. /\ Len(stamps) \in Nat /\ durable \in Nat /\ durable <= Len(stamps)
      /\ \A k \in 1..Len(stamps) : stamps[k] \in Times
  BY DEF FileTypeOK
<1>3. \A time \in Times : time \in Nat
  BY LogFileAssumption DEF Times
<1>4. Len(files) \in Nat /\ Len(files) > 0 /\ DOMAIN files = 1..Len(files)
  BY DEF FileTypeOK
<1>5. Open \in File
  BY <1>4 DEF FileTypeOK, Open
<1>6. Open.first \in Nat /\ Open.first > 0
  BY <1>5, LogFileAssumption DEF File
<1> QED
  BY <1>1, <1>2, <1>3, <1>4, <1>5, <1>6

\* The same of the numbers alone.
LEMMA Sizes ==
  ASSUME FileInv
  PROVE  /\ clock \in Nat /\ lastRoll \in Nat /\ lastFlush \in Nat /\ FlushInterval \in Nat
         /\ count \in Nat /\ count < CheckEveryN /\ CheckEveryN \in Nat
         /\ durable \in Nat /\ Len(stamps) \in Nat /\ durable <= Len(stamps)
         /\ \A k \in 1..Len(stamps) : stamps[k] \in Nat
         /\ Open.first \in Nat /\ Open.first > 0
<1>1. FileTypeOK
  BY DEF FileInv
<1> QED
  BY <1>1, Numbers

\* The files: no name is later than the last roll, no first line than the next.
LEMMA FilesAre ==
  ASSUME FileInv
  PROVE  \A j \in 1..Len(files) :
           /\ files[j].name \in Nat /\ files[j].first \in Nat
           /\ files[j].name <= lastRoll /\ files[j].first <= Len(stamps) + 1
<1> SUFFICES ASSUME NEW j \in 1..Len(files)
             PROVE  /\ files[j].name \in Nat /\ files[j].first \in Nat
                    /\ files[j].name <= lastRoll /\ files[j].first <= Len(stamps) + 1
  OBVIOUS
<1>1. Len(files) \in Nat /\ Len(files) \in DOMAIN files /\ j \in DOMAIN files /\ lastRoll \in Nat
  BY Numbers DEF FileInv
<1>2. files[j] \in File
  BY <1>1 DEF FileInv, FileTypeOK
<1>3. files[j].name \in Nat /\ files[j].first \in Nat
  BY <1>2, LogFileAssumption DEF File, Times
<1>4. files[Len(files)].name = lastRoll
  BY DEF FileInv, OpenInv, Open
<1>5. j < Len(files) => files[j].name < files[Len(files)].name
  BY <1>1 DEF FileInv, FilesInOrder
<1>6. files[j].name <= lastRoll
  BY <1>1, <1>3, <1>4, <1>5
<1>7. files[j].first <= Len(stamps) + 1
  BY <1>1 DEF FileInv, OpenInv
<1> QED
  BY <1>3, <1>6, <1>7

\* Steps that leave the files alone.
LEMMA ClockKeeps ==
  ASSUME FileInv, UNCHANGED <<count, startOfPeriod, lastRoll, lastFlush, writtenBytes, files, stamps, durable>>,
         Tick \/ SetBack
  PROVE  FileInv'
<1>1. Open' = Open
  BY DEF Open
<1>2. FileTypeOK'
  <2>1. clock' \in Times /\ steps' \in 0..MaxSteps
    BY LogFileAssumption DEF FileInv, FileTypeOK, Tick, SetBack, Times
  <2> QED
    BY <2>1 DEF FileInv, FileTypeOK
<1>3. FilesInOrder' /\ OpenInv'
  BY <1>1 DEF FileInv, FilesInOrder, OpenInv, Period
<1>4. Steady'
  <2>1. CASE Tick
    <3>1. clock' = clock + 1 /\ steps' = steps
      BY <2>1 DEF Tick
    <3>2. steps = 0 => InTimeOrder'
      BY <1>1, <3>1, Sizes DEF FileInv, Steady, InTimeOrder
    <3>3. steps = 0 => CountInv' /\ OversizeInOneSecond'
      BY <1>1, <3>1 DEF FileInv, Steady, CountInv, OversizeInOneSecond, Period
    <3> QED
      BY <3>1, <3>2, <3>3 DEF Steady
  <2>2. CASE SetBack
    BY <2>2 DEF SetBack, Steady, FileInv, FileTypeOK
  <2> QED
    BY <2>1, <2>2
<1> QED
  BY <1>2, <1>3, <1>4 DEF FileInv

-------------------------------------------------------------------------------
(* Lines, flushes and rolls.                                               *)

\* A line more, or none.
LineAppended == stamps' = stamps \/ (Len(stamps) < MaxFileLines /\ stamps' = Append(stamps, clock))

LEMMA LinesAre ==
  ASSUME FileInv, LineAppended
  PROVE  /\ stamps' \in Seq(Times)
         /\ Len(stamps') \in {Len(stamps), Len(stamps) + 1} /\ Len(stamps') <= MaxFileLines
         /\ \A k \in 1..Len(stamps) : stamps'[k] = stamps[k]
         /\ \A k \in (Len(stamps) + 1)..Len(stamps') : k = Len(stamps') /\ stamps'[k] = clock
         /\ steps = 0 => \A k \in 1..Len(stamps') : stamps'[k] <= clock /\ stamps'[k] \in Times
<1>1. CASE stamps' = stamps
  <2>1. stamps \in Seq(Times) /\ Len(stamps) <= MaxFileLines
    BY DEF FileInv, FileTypeOK, OpenInv
  <2>2. steps = 0 => \A k \in 1..Len(stamps) : stamps[k] <= clock
    BY DEF FileInv, Steady, InTimeOrder
  <2> QED
    BY <1>1, <2>1, <2>2, Sizes
<1>2. CASE Len(stamps) < MaxFileLines /\ stamps' = Append(stamps, clock)
  <2>1. /\ stamps \in Seq(Times) /\ clock \in Times /\ Len(stamps) \in Nat /\ MaxFileLines \in Nat
    BY LogFileAssumption DEF FileInv, FileTypeOK
  <2>2. /\ stamps' \in Seq(Times) /\ Len(stamps') = Len(stamps) + 1
        /\ \A k \in 1..Len(stamps) : stamps'[k] = stamps[k]
        /\ stamps'[Len(stamps) + 1] = clock
    BY <1>2, <2>1
  <2>3. \A k \in (Len(stamps) + 1)..Len(stamps') : k = Len(stamps') /\ stamps'[k] = clock
    BY <2>1, <2>2
  <2>4. steps = 0 => \A k \in 1..Len(stamps) : stamps[k] <= clock /\ stamps[k] \in Times
    BY Numbers DEF FileInv, Steady, InTimeOrder
  <2>5. \A k \in 1..Len(stamps') : k \in 1..Len(stamps) \/ k = Len(stamps) + 1
    BY <2>1, <2>2
  <2>6. clock <= clock
    BY Numbers DEF FileInv
  <2>7. steps = 0 => \A k \in 1..Len(stamps') : stamps'[k] <= clock /\ stamps'[k] \in Times
    BY <2>1, <2>2, <2>4, <2>5, <2>6
  <2> QED
    BY <1>2, <2>1, <2>2, <2>3, <2>7
<1> QED
  BY <1>1, <1>2 DEF LineAppended

\* A new file: all lines are safe, and none is in it.
LEMMA RollKeeps ==
  ASSUME FileInv, LineAppended, UNCHANGED clockVars, count' \in 0..(CheckEveryN - 1),
         NEW bytes, LaterSecond, Roll(bytes)
  PROVE  FileInv'
<1> DEFINE file == [name |-> clock, first |-> Len(stamps') + 1]
           n == Len(files)
<1>1. /\ lastRoll' = clock /\ lastFlush' = clock /\ startOfPeriod' = Period(clock) /\ writtenBytes' = 0
      /\ files' = Append(files, file) /\ durable' = Len(stamps')
      /\ clock' = clock /\ steps' = steps /\ lastRoll < clock
  BY DEF Roll, LaterSecond, clockVars
<1>2. Len(stamps') \in Nat /\ Len(stamps') <= MaxFileLines /\ Len(stamps) <= Len(stamps') /\ file \in File
  BY LinesAre, Numbers, LogFileAssumption DEF File, FileInv, FileTypeOK
<1> HIDE DEF file
<1>3. /\ files' \in Seq(File) /\ files' # <<>> /\ Len(files') = n + 1 /\ n \in Nat
      /\ DOMAIN files' = 1..(n + 1) /\ DOMAIN files = 1..n
      /\ \A j \in 1..n : files'[j] = files[j]
      /\ files'[n + 1] = file /\ Open' = file
  BY <1>1, <1>2 DEF FileInv, FileTypeOK, Open
<1>4. FileTypeOK'
  BY <1>1, <1>2, <1>3, LinesAre, PeriodType DEF FileInv, FileTypeOK
<1>5. FilesInOrder'
  <2>1. \A j \in 1..n : files[j].name <= lastRoll /\ files[j].first <= Len(stamps) + 1
    BY <1>3, FilesAre
  <2>2. file.name = clock /\ file.first = Len(stamps') + 1
    BY DEF file
  <2>3. \A j \in 1..n : files[j].name \in Nat /\ files[j].first \in Nat
    BY <1>3, FilesAre
  <2>4. \A j \in 1..n : files[j].name < file.name /\ files[j].first <= file.first
    <3> TAKE j \in 1..n
    <3>1. /\ lastRoll \in Nat /\ clock \in Nat /\ Len(stamps) \in Nat
          /\ files[j].name \in Nat /\ files[j].first \in Nat
          /\ files[j].name <= lastRoll /\ files[j].first <= Len(stamps) + 1
      BY <2>1, <2>3, Numbers DEF FileInv
    <3> QED
      BY <1>1, <1>2, <2>2, <3>1
  <2>5. \A j, k \in 1..n : j < k => files[j].name < files[k].name /\ files[j].first <= files[k].first
    BY <1>3 DEF FileInv, FilesInOrder
  <2> SUFFICES ASSUME NEW j \in 1..(n + 1), NEW k \in 1..(n + 1), j < k
               PROVE  files'[j].name < files'[k].name /\ files'[j].first <= files'[k].first
    BY <1>3 DEF FilesInOrder
  <2>6. j \in 1..n /\ (k \in 1..n \/ k = n + 1)
    BY <1>3
  <2> QED
    BY <1>3, <2>4, <2>5, <2>6
<1>6. OpenInv'
  <2>1. \A j \in 1..n : files[j].first \in Nat /\ files[j].first <= Len(stamps) + 1
    BY <1>3, FilesAre
  <2>2. file.name = clock /\ file.first = Len(stamps') + 1
    BY DEF file
  <2>3. \A j \in 1..(n + 1) : files'[j].first <= Len(stamps') + 1
    <3> TAKE j \in 1..(n + 1)
    <3>1. CASE j \in 1..n
      <4>1. Len(stamps) \in Nat /\ files[j].first \in Nat /\ files[j].first <= Len(stamps) + 1
        BY <2>1, <3>1, Numbers DEF FileInv
      <4> QED
        BY <1>2, <1>3, <3>1, <4>1
    <3>2. CASE j = n + 1
      BY <1>2, <1>3, <2>2, <3>2
    <3> QED
      BY <1>3, <3>1, <3>2
  <2>4. Period(lastRoll)' = Period(lastRoll')
    BY DEF Period
  <2> QED
    BY <1>1, <1>2, <1>3, <2>2, <2>3, <2>4 DEF OpenInv
<1>7. Steady'
  <2> SUFFICES ASSUME steps = 0 PROVE InTimeOrder' /\ CountInv' /\ OversizeInOneSecond'
    BY <1>1 DEF Steady
  <2>1. Open'.first = Len(stamps') + 1 /\ Open'.name = clock
    BY <1>3 DEF file
  <2>2. /\ Open'.first..Len(stamps') = {} /\ (durable' + 1)..Len(stamps') = {}
    BY <1>1, <1>2, <2>1
  <2>3. InTimeOrder'
    <3>1. \A k \in 1..Len(stamps') : stamps'[k] <= clock'
      BY <1>1, LinesAre
    <3>2. lastRoll' <= lastFlush' /\ lastFlush' <= clock'
      BY <1>1, Sizes
    <3> QED
      BY <2>2, <3>1, <3>2 DEF InTimeOrder
  <2>4. CountInv'
    BY <2>2 DEF CountInv
  <2>5. OversizeInOneSecond'
    BY <1>1, <2>2 DEF OversizeInOneSecond
  <2> QED
    BY <2>3, <2>4, <2>5
<1> QED
  BY <1>4, <1>5, <1>6, <1>7 DEF FileInv

\* What does not depend on the clock, when no file is begun.
LEMMA FilesStay ==
  ASSUME FileInv, LineAppended, UNCHANGED <<clockVars, startOfPeriod, lastRoll, files>>,
         count' \in 0..(CheckEveryN - 1), writtenBytes' \in Nat,
         lastFlush' \in {lastFlush, clock}, durable' \in {durable, Len(stamps')}
  PROVE  FileTypeOK' /\ FilesInOrder' /\ OpenInv' /\ Open' = Open
<1>1. Open' = Open /\ Len(stamps') \in Nat /\ Len(stamps) \in Nat /\ Len(stamps) <= Len(stamps')
  BY LinesAre, Sizes DEF Open
<1>2. FileTypeOK'
  <2>1. durable' \in 0..Len(stamps')
    BY <1>1, Sizes
  <2>2. lastFlush' \in Times
    BY DEF FileInv, FileTypeOK
  <2> QED
    BY <2>1, <2>2, LinesAre DEF FileInv, FileTypeOK, clockVars
<1>3. FilesInOrder'
  BY DEF FileInv, FilesInOrder
<1>4. OpenInv'
  <2>1. \A j \in DOMAIN files : files[j].first \in Nat /\ files[j].first <= Len(stamps) + 1
    BY FilesAre, Numbers DEF FileInv
  <2>2. \A j \in DOMAIN files : files[j].first <= Len(stamps') + 1
    <3> TAKE j \in DOMAIN files
    <3>1. files[j].first \in Nat /\ files[j].first <= Len(stamps) + 1
      BY <2>1
    <3> QED
      BY <1>1, <3>1
  <2> QED
    BY <1>1, <2>2, LinesAre DEF FileInv, OpenInv, Period
<1> QED
  BY <1>1, <1>2, <1>3, <1>4

\* The seconds of the lines in the open file, and of those not flushed.
LEMMA SecondsOfLines ==
  ASSUME FileInv, LineAppended, steps = 0
  PROVE  /\ lastRoll \in Times /\ lastFlush \in Times /\ clock \in Times
         /\ lastRoll <= lastFlush /\ lastFlush <= clock
         /\ \A k \in Open.first..Len(stamps') : /\ stamps'[k] \in Times /\ lastRoll <= stamps'[k]
                                                /\ stamps'[k] <= clock
         /\ \A k \in (durable + 1)..Len(stamps') : /\ stamps'[k] \in Times /\ lastFlush <= stamps'[k]
                                                   /\ stamps'[k] <= clock
<1>1. /\ lastRoll \in Times /\ lastFlush \in Times /\ clock \in Times
      /\ lastRoll <= lastFlush /\ lastFlush <= clock
  BY DEF FileInv, FileTypeOK, Steady, InTimeOrder
<1>2. /\ lastRoll \in Nat /\ lastFlush \in Nat /\ clock \in Nat /\ Len(stamps) \in Nat
      /\ Open.first \in Nat /\ Open.first > 0 /\ durable \in Nat /\ Len(stamps') \in Nat
  BY LinesAre, Numbers DEF FileInv
<1>3. ASSUME NEW k \in 1..Len(stamps')
      PROVE  /\ stamps'[k] \in Times /\ stamps'[k] <= clock
             /\ k <= Len(stamps) => stamps'[k] = stamps[k]
             /\ k > Len(stamps) => stamps'[k] = clock
  BY <1>2, LinesAre
<1>4. ASSUME NEW k \in Open.first..Len(stamps') PROVE k \in 1..Len(stamps') /\ lastRoll <= stamps'[k]
  <2>1. k \in 1..Len(stamps') /\ k \in Nat
    BY <1>2
  <2>2. CASE k <= Len(stamps)
    <3>1. k \in Open.first..Len(stamps)
      BY <1>2, <2>1, <2>2
    <3>2. lastRoll <= stamps[k]
      BY <3>1 DEF FileInv, Steady, InTimeOrder
    <3> QED
      BY <1>3, <2>1, <2>2, <3>2
  <2>3. CASE k > Len(stamps)
    <3>1. stamps'[k] = clock
      BY <1>3, <2>1, <2>3
    <3> QED
      BY <1>1, <1>2, <2>1, <3>1
  <2> QED
    BY <1>2, <2>1, <2>2, <2>3
<1>5. ASSUME NEW k \in (durable + 1)..Len(stamps')
      PROVE  k \in 1..Len(stamps') /\ lastFlush <= stamps'[k]
  <2>1. k \in 1..Len(stamps') /\ k \in Nat
    BY <1>2
  <2>2. CASE k <= Len(stamps)
    <3>1. k \in (durable + 1)..Len(stamps)
      BY <1>2, <2>1, <2>2
    <3>2. lastFlush <= stamps[k]
      BY <3>1 DEF FileInv, Steady, InTimeOrder
    <3> QED
      BY <1>3, <2>1, <2>2, <3>2
  <2>3. CASE k > Len(stamps)
    <3>1. stamps'[k] = clock
      BY <1>3, <2>1, <2>3
    <3> QED
      BY <1>1, <1>2, <2>1, <3>1
  <2> QED
    BY <1>2, <2>1, <2>2, <2>3
<1> QED
  BY <1>1, <1>3, <1>4, <1>5

(* roll_file in the second of the last roll: while the clock was not set   *)
(* back, all lines of the file are of this second.                         *)
LEMMA NoRollKeeps ==
  ASSUME FileInv, LineAppended, UNCHANGED clockVars, count' \in 0..(CheckEveryN - 1),
         NEW bytes \in Nat, ~LaterSecond, Stay(bytes)
  PROVE  FileInv'
<1>1. FileTypeOK' /\ FilesInOrder' /\ OpenInv' /\ Open' = Open
  BY FilesStay DEF Stay
<1>2. UNCHANGED <<clock, steps, startOfPeriod, lastRoll, lastFlush, files, durable>>
  BY DEF Stay, clockVars
<1>3. Steady'
  <2> SUFFICES ASSUME steps = 0 PROVE InTimeOrder' /\ CountInv' /\ OversizeInOneSecond'
    BY <1>2 DEF Steady
  <2>1. \A time \in Times : time \in Nat
    BY LogFileAssumption DEF Times
  <2>2. lastRoll = clock /\ lastFlush = clock
    BY <2>1, SecondsOfLines DEF LaterSecond
  <2>3. \A k \in Open.first..Len(stamps') : stamps'[k] = clock
    BY <2>1, <2>2, SecondsOfLines
  <2>4. \A k \in (durable + 1)..Len(stamps') : stamps'[k] = clock
    BY <2>1, <2>2, SecondsOfLines
  <2>5. Open.name = clock
    BY <2>2 DEF FileInv, OpenInv
  <2>6. InTimeOrder'
    BY <1>1, <1>2, LinesAre, SecondsOfLines DEF InTimeOrder
  <2>7. CountInv'
    <3>1. ASSUME NEW k \in (durable + 1)..Len(stamps')
          PROVE  ~(stamps'[k] - stamps'[durable + 1] > FlushInterval)
      <4>1. durable + 1 \in (durable + 1)..Len(stamps')
        <5>1. durable \in Nat /\ Len(stamps') \in Nat
          BY LinesAre, Numbers DEF FileInv
        <5> QED
          BY <5>1
      <4>2. stamps'[k] = clock /\ stamps'[durable + 1] = clock
        BY <2>4, <4>1
      <4> QED
        BY <4>2, Sizes
    <3>2. \A k \in Open.first..Len(stamps') : Period(stamps'[k]) = Period(Open.name)
      BY <2>3, <2>5
    <3> QED
      BY <1>1, <1>2, <3>1, <3>2 DEF CountInv, Period
  <2>8. OversizeInOneSecond'
    BY <1>1, <2>3, <2>5 DEF OversizeInOneSecond
  <2> QED
    BY <2>6, <2>7, <2>8
<1> QED
  BY <1>1, <1>3 DEF FileInv

\* A line that count_ counts.
LEMMA CountedKeeps ==
  ASSUME FileInv, LineAppended, Len(stamps') = Len(stamps) + 1, UNCHANGED clockVars, count' = count + 1,
         NEW bytes \in Nat, ~TooLarge(bytes), ~TimeToCheck, Stay(bytes)
  PROVE  FileInv'
<1>1. count' \in 0..(CheckEveryN - 1)
  BY Sizes DEF TimeToCheck
<1>2. FileTypeOK' /\ FilesInOrder' /\ OpenInv' /\ Open' = Open
  BY <1>1, FilesStay DEF Stay
<1>3. /\ UNCHANGED <<clock, steps, startOfPeriod, lastRoll, lastFlush, files, durable>>
      /\ writtenBytes' = bytes /\ ~(bytes > RollSize)
  BY DEF Stay, clockVars, TooLarge
<1>4. /\ Len(stamps) \in Nat /\ durable \in Nat /\ durable <= Len(stamps) /\ count \in Nat
      /\ Open.first \in Nat /\ Open.first > 0
      /\ \A k \in 1..Len(stamps) : stamps'[k] = stamps[k]
  BY LinesAre, Numbers DEF FileInv
<1>5. Steady'
  <2> SUFFICES ASSUME steps = 0 PROVE InTimeOrder' /\ CountInv' /\ OversizeInOneSecond'
    BY <1>3 DEF Steady
  <2>1. InTimeOrder'
    BY <1>2, <1>3, LinesAre, SecondsOfLines DEF InTimeOrder
  <2>2. ASSUME NEW k \in (durable + 1)..Len(stamps'),
               stamps'[k] - stamps'[durable + 1] > FlushInterval
        PROVE  k > Len(stamps') - count'
    <3>1. CASE k <= Len(stamps)
      <4>1. /\ k \in (durable + 1)..Len(stamps) /\ durable + 1 \in 1..Len(stamps)
            /\ k \in 1..Len(stamps)
        BY <1>4, <3>1
      <4>2. stamps[k] - stamps[durable + 1] > FlushInterval
        BY <1>4, <2>2, <4>1
      <4>3. k > Len(stamps) - count
        BY <4>1, <4>2 DEF FileInv, Steady, CountInv
      <4> QED
        BY <1>4, <4>1, <4>3
    <3>2. CASE k > Len(stamps)
      BY <1>4, <3>2
    <3> QED
      BY <1>4, <3>1, <3>2
  <2>3. ASSUME NEW k \in Open.first..Len(stamps'), Period(stamps'[k]) # Period(Open.name)
        PROVE  k > Len(stamps') - count'
    <3>1. CASE k <= Len(stamps)
      <4>1. k \in Open.first..Len(stamps) /\ k \in 1..Len(stamps)
        BY <1>4, <3>1
      <4>2. Period(stamps[k]) # Period(Open.name)
        BY <1>4, <2>3, <4>1
      <4>3. k > Len(stamps) - count
        BY <4>1, <4>2 DEF FileInv, Steady, CountInv
      <4> QED
        BY <1>4, <4>1, <4>3
    <3>2. CASE k > Len(stamps)
      BY <1>4, <3>2
    <3> QED
      BY <1>4, <3>1, <3>2
  <2>4. CountInv'
    BY <1>2, <1>3, <2>2, <2>3 DEF CountInv, Period
  <2>5. OversizeInOneSecond'
    BY <1>3 DEF OversizeInOneSecond
  <2> QED
    BY <2>1, <2>4, <2>5
<1> QED
  BY <1>2, <1>5 DEF FileInv

(* The check at every so many lines: what is late was flushed, and no line *)
(* is of another day.                                                      *)
LEMMA CheckedKeeps ==
  ASSUME FileInv, LineAppended, UNCHANGED clockVars, count' = 0, Period(clock) = startOfPeriod,
         NEW bytes \in Nat, ~TooLarge(bytes),
         \/ Flush(bytes) /\ lastFlush' = clock
         \/ Stay(bytes) /\ ~(clock - lastFlush > FlushInterval)
  PROVE  FileInv'
<1>1. count' \in 0..(CheckEveryN - 1)
  BY Numbers DEF FileInv
<1>2. FileTypeOK' /\ FilesInOrder' /\ OpenInv' /\ Open' = Open
  BY <1>1, FilesStay DEF Stay, Flush
<1>3. /\ UNCHANGED <<clock, steps, startOfPeriod, lastRoll, files>>
      /\ writtenBytes' = bytes /\ ~(bytes > RollSize)
  BY DEF Stay, Flush, clockVars, TooLarge
<1>4. /\ Len(stamps') \in Nat /\ durable \in Nat /\ clock \in Nat /\ lastFlush \in Nat
      /\ FlushInterval \in Nat
  BY LinesAre, Numbers DEF FileInv
<1>5. Steady'
  <2> SUFFICES ASSUME steps = 0 PROVE InTimeOrder' /\ CountInv' /\ OversizeInOneSecond'
    BY <1>3 DEF Steady
  <2>1. \A time \in Times : time \in Nat
    BY LogFileAssumption DEF Times
  <2>2. \A k \in Open.first..Len(stamps') : Period(stamps'[k]) = Period(Open.name)
    <3> TAKE k \in Open.first..Len(stamps')
    <3>1. Open.name = lastRoll /\ Period(lastRoll) = Period(clock)
      BY DEF FileInv, OpenInv
    <3>2. /\ lastRoll \in Times /\ clock \in Times /\ stamps'[k] \in Times
          /\ lastRoll <= stamps'[k] /\ stamps'[k] <= clock
      BY SecondsOfLines
    <3> QED
      BY <3>1, <3>2, SameDay
  <2>3. OversizeInOneSecond'
    BY <1>3 DEF OversizeInOneSecond
  <2>4. CASE Flush(bytes) /\ lastFlush' = clock
    <3>1. durable' = Len(stamps') /\ (durable' + 1)..Len(stamps') = {}
      BY <1>4, <2>4 DEF Flush
    <3>2. InTimeOrder'
      <4>1. lastRoll' <= lastFlush' /\ lastFlush' <= clock'
        BY <1>3, <1>4, <2>1, <2>4, SecondsOfLines
      <4> QED
        BY <1>2, <1>3, <3>1, <4>1, LinesAre, SecondsOfLines DEF InTimeOrder
    <3>3. CountInv'
      BY <1>2, <2>2, <3>1 DEF CountInv, Period
    <3> QED
      BY <2>3, <3>2, <3>3
  <2>5. CASE Stay(bytes) /\ ~(clock - lastFlush > FlushInterval)
    <3>1. lastFlush' = lastFlush /\ durable' = durable
      BY <2>5 DEF Stay
    <3>2. InTimeOrder'
      BY <1>2, <1>3, <3>1, LinesAre, SecondsOfLines DEF InTimeOrder
    <3>3. ASSUME NEW k \in (durable + 1)..Len(stamps')
          PROVE  ~(stamps'[k] - stamps'[durable + 1] > FlushInterval)
      <4>1. durable + 1 \in (durable + 1)..Len(stamps')
        BY <1>4
      <4>2. /\ stamps'[k] \in Times /\ stamps'[durable + 1] \in Times
            /\ stamps'[k] <= clock /\ lastFlush <= stamps'[durable + 1]
        BY <4>1, SecondsOfLines
      <4> QED
        BY <1>4, <2>1, <2>5, <4>2
    <3>4. CountInv'
      BY <1>2, <2>2, <3>1, <3>3 DEF CountInv, Period
    <3> QED
      BY <2>3, <3>2, <3>4
  <2> QED
    BY <2>4, <2>5
<1> QED
  BY <1>2, <1>5 DEF FileInv

LEMMA AppendLineKeeps == ASSUME FileInv, NEW len \in LineLengths, AppendLine(len) PROVE FileInv'
<1> DEFINE bytes == writtenBytes + len
<1>1. /\ LineAppended /\ Len(stamps') = Len(stamps) + 1 /\ UNCHANGED clockVars
      /\ AppendUnlocked(bytes) /\ bytes \in Nat
  <2>1. stamps' = Append(stamps, clock) /\ stamps \in Seq(Times) /\ Len(stamps) < MaxFileLines
    BY DEF AppendLine, FileInv, FileTypeOK
  <2>2. bytes \in Nat
    BY Numbers, LogFileAssumption DEF FileInv
  <2> QED
    BY <2>1, <2>2 DEF AppendLine, LineAppended
<1>2. count \in 0..(CheckEveryN - 1) /\ 0 \in 0..(CheckEveryN - 1)
  BY Numbers DEF FileInv
<1> HIDE DEF bytes
<1>3. CASE TooLarge(bytes)
  <2>1. Roll(bytes) /\ count' = count
    BY <1>1, <1>3 DEF AppendUnlocked
  <2>2. LaterSecond \/ (~LaterSecond /\ Stay(bytes))
    BY <2>1 DEF Roll
  <2> QED
    BY <1>1, <1>2, <2>1, <2>2, RollKeeps, NoRollKeeps
<1>4. CASE ~TooLarge(bytes) /\ ~TimeToCheck
  BY <1>1, <1>4, CountedKeeps DEF AppendUnlocked
<1>5. CASE ~TooLarge(bytes) /\ TimeToCheck
  <2>1. count' = 0
    BY <1>1, <1>5 DEF AppendUnlocked
  <2>2. CASE Period(clock) # startOfPeriod
    <3>1. Roll(bytes)
      BY <1>1, <1>5, <2>2 DEF AppendUnlocked
    <3>2. LaterSecond \/ (~LaterSecond /\ Stay(bytes))
      BY <3>1 DEF Roll
    <3> QED
      BY <1>1, <1>2, <2>1, <3>1, <3>2, RollKeeps, NoRollKeeps
  <2>3. CASE Period(clock) = startOfPeriod
    <3>1. \/ Flush(bytes) /\ lastFlush' = clock
          \/ Stay(bytes) /\ ~(clock - lastFlush > FlushInterval)
      BY <1>1, <1>5, <2>3 DEF AppendUnlocked
    <3> QED
      BY <1>1, <1>5, <2>1, <2>3, <3>1, CheckedKeeps
  <2> QED
    BY <2>2, <2>3
<1> QED
  BY <1>3, <1>4, <1>5

LEMMA FlushFileKeeps == ASSUME FileInv, FlushFile PROVE FileInv'
<1>1. /\ UNCHANGED <<clock, steps, count, lastFlush, startOfPeriod, lastRoll, files, stamps, writtenBytes>>
      /\ durable' = Len(stamps)
  BY DEF FlushFile, Flush, clockVars
<1>2. FileTypeOK' /\ FilesInOrder' /\ OpenInv' /\ Open' = Open
  BY <1>1, FilesStay, Numbers DEF LineAppended, clockVars, FileInv, FileTypeOK
<1>3. Steady'
  <2>1. (durable' + 1)..Len(stamps') = {}
    BY <1>1, Sizes
  <2>2. steps = 0 => InTimeOrder'
    BY <1>1, <1>2, <2>1 DEF FileInv, Steady, InTimeOrder
  <2>3. steps = 0 => CountInv' /\ OversizeInOneSecond'
    BY <1>1, <1>2, <2>1 DEF FileInv, Steady, CountInv, OversizeInOneSecond, Period
  <2> QED
    BY <1>1, <2>2, <2>3 DEF Steady
<1> QED
  BY <1>2, <1>3 DEF FileInv

LEMMA RollFileKeeps == ASSUME FileInv, RollFile PROVE FileInv'
<1>1. /\ LineAppended /\ UNCHANGED clockVars /\ count' \in 0..(CheckEveryN - 1) /\ writtenBytes \in Nat
      /\ Roll(writtenBytes)
  BY DEF RollFile, LineAppended, FileInv, FileTypeOK
<1>2. LaterSecond \/ (~LaterSecond /\ Stay(writtenBytes))
  BY <1>1 DEF Roll
<1> QED
  BY <1>1, <1>2, RollKeeps, NoRollKeeps

-------------------------------------------------------------------------------
LEMMA NextFileInv == FileInv /\ [FileNext]_fileVars => FileInv'
<1> SUFFICES ASSUME FileInv, [FileNext]_fileVars PROVE FileInv'
  OBVIOUS
<1>1. ASSUME Tick \/ SetBack PROVE FileInv'
  BY <1>1, ClockKeeps DEF Tick, SetBack
<1>2. CASE UNCHANGED fileVars
  <2>1. FileTypeOK'
    BY <1>2 DEF fileVars, clockVars, FileInv, FileTypeOK
  <2> QED
    BY <1>2, <2>1 DEF fileVars, clockVars, FileInv, FilesInOrder, OpenInv, Open, Steady, InTimeOrder, CountInv,
                      OversizeInOneSecond, Period
<1> QED
  BY <1>1, <1>2, AppendLineKeeps, FlushFileKeeps, RollFileKeeps DEF FileNext

LEMMA FileInvariant == FileSpec => []FileInv
  BY InitFileInv, NextFileInv, PTL DEF FileSpec

\* What is among the last count_ lines is fewer than check_every_n_ lines.
LEMMA FewLines ==
  ASSUME FileInv, NEW S, S \subseteq Int, \A k \in S : k > Len(stamps) - count /\ k <= Len(stamps)
  PROVE  Cardinality(S) < CheckEveryN
<1> DEFINE low == Len(stamps) - count + 1
           last == low..Len(stamps)
<1>1. Len(stamps) \in Int /\ low \in Int /\ count \in Nat /\ count < CheckEveryN /\ CheckEveryN \in Nat
  BY Numbers DEF FileInv
<1>2. IsFiniteSet(last) /\ Cardinality(last) = IF low > Len(stamps) THEN 0 ELSE Len(stamps) - low + 1
  BY <1>1, FS_Interval
<1>3. Cardinality(last) = count
  BY <1>1, <1>2
<1>4. S \subseteq last
  BY <1>1
<1> HIDE DEF last
<1>5. IsFiniteSet(S) /\ Cardinality(S) <= Cardinality(last)
  BY <1>2, <1>4, FS_Subset
<1>6. Cardinality(S) \in Nat
  BY <1>5, FS_CardinalityType
<1> QED
  BY <1>1, <1>3, <1>5, <1>6

\* No file is begun twice or out of order, whatever the clock does.
THEOREM FilesFollow == FileSpec => []FilesConsistent
<1>1. FileInv => FilesConsistent
  BY DEF FileInv, FilesConsistent
<1> QED
  BY <1>1, FileInvariant, PTL

(* Lines are flushed before check_every_n_ more come later than            *)
(* flush_interval_ seconds after them, if the clock is not set back.       *)
THEOREM FlushesInTime == FileSpec => []FlushedInTime
<1>1. ASSUME FileInv PROVE FlushedInTime
  <2> SUFFICES ASSUME steps = 0
               PROVE  Cardinality({k \in durable..Len(stamps) :
                        k > durable /\ stamps[k] - stamps[durable + 1] > FlushInterval}) < CheckEveryN
    BY DEF FlushedInTime
  <2> DEFINE late == {k \in durable..Len(stamps) :
                        k > durable /\ stamps[k] - stamps[durable + 1] > FlushInterval}
  <2>1. durable \in Nat /\ Len(stamps) \in Nat
    BY <1>1, Sizes
  <2>2. late \subseteq Int
    BY <2>1
  <2>3. ASSUME NEW k \in late PROVE k > Len(stamps) - count /\ k <= Len(stamps)
    <3>1. k \in (durable + 1)..Len(stamps) /\ stamps[k] - stamps[durable + 1] > FlushInterval
      BY <2>1
    <3> QED
      BY <1>1, <2>1, <3>1 DEF FileInv, Steady, CountInv
  <2> HIDE DEF late
  <2>4. Cardinality(late) < CheckEveryN
    BY <1>1, <2>2, <2>3, FewLines
  <2> QED
    BY <2>4 DEF late
<1>2. FileInv => FlushedInTime
  BY <1>1
<1> QED
  BY <1>2, FileInvariant, PTL

(* Files are rolled with the day and when they are too large, but for      *)
(* check_every_n_ lines or a second, if the clock is not set back.         *)
THEOREM RollsInTime == FileSpec => []RolledInTime
<1>1. ASSUME FileInv PROVE OneDayPerFile
  <2> SUFFICES ASSUME steps = 0
               PROVE  Cardinality({k \in Open.first..Len(stamps) :
                                     Period(stamps[k]) # Period(Open.name)}) < CheckEveryN
    BY DEF OneDayPerFile
  <2> DEFINE other == {k \in Open.first..Len(stamps) : Period(stamps[k]) # Period(Open.name)}
  <2>1. Open.first \in Nat /\ Len(stamps) \in Nat
    BY <1>1, Sizes
  <2>2. other \subseteq Int /\ \A k \in other : k <= Len(stamps)
    BY <2>1
  <2>3. \A k \in other : k > Len(stamps) - count
    BY <1>1 DEF FileInv, Steady, CountInv
  <2> HIDE DEF other
  <2>4. Cardinality(other) < CheckEveryN
    BY <1>1, <2>2, <2>3, FewLines
  <2> QED
    BY <2>4 DEF other
<1>2. ASSUME FileInv PROVE OversizeInOneSecond
  BY <1>2 DEF FileInv, Steady, OversizeInOneSecond
<1>3. FileInv => RolledInTime
  BY <1>1, <1>2 DEF RolledInTime
<1> QED
  BY <1>3, FileInvariant, PTL
===============================================================================
