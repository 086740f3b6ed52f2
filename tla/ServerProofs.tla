------------------------------ MODULE ServerProofs ------------------------------
(***************************************************************************)
(* For every timeout and every stream length: a pipe loses, repeats and     *)
(* swaps nothing across partial writes and restarts, and stays idle for     *)
(* less than twice its timeout. For any things and workers: the completion  *)
(* of a shutdown is final, and no notification is lost.                     *)
(***************************************************************************)
EXTENDS MCServer, SequenceTheorems, TLAPS

\* A leaf that names no prover is tried with the SMT solver, with Zenon, and with
\* the solver once more.
USE SMTT(30), ZenonT(40), Z3T(30)

\* The bytes of a stream, by their positions.
Bytes == 1 .. MaxBytes

\* Positions(from, to) is the sequence of the bytes from .. to.
LEMMA PositionsAre ==
  ASSUME NEW from \in Nat \ {0}, NEW to \in 0 .. MaxBytes, from <= to + 1
  PROVE  /\ Positions(from, to) \in Seq(Bytes)
         /\ Len(Positions(from, to)) = to - from + 1
         /\ \A i \in 1 .. to - from + 1 : Positions(from, to)[i] = from + i - 1
<1> DEFINE n == to - from + 1
<1>1. n \in Nat
  BY TcpPipeAssumption
<1>2. Positions(from, to) \in [1 .. n -> Bytes]
  BY TcpPipeAssumption DEF Positions, Bytes
<1>3. Positions(from, to) \in Seq(Bytes)
  BY <1>1, <1>2, SeqDef
<1> QED
  BY <1>1, <1>2, <1>3, LenProperties DEF Positions

\* Reading on from where the last chunk ended extends the stream.
LEMMA PositionsExtend ==
  ASSUME NEW t \in 0 .. MaxBytes, NEW u \in 0 .. MaxBytes, t <= u
  PROVE  Positions(1, t) \o Positions(t + 1, u) = Positions(1, u)
<1> DEFINE a == Positions(1, t)
           b == Positions(t + 1, u)
           c == Positions(1, u)
<1>1. /\ a \in Seq(Bytes) /\ Len(a) = t
      /\ \A i \in 1 .. t : a[i] = i
  BY PositionsAre, TcpPipeAssumption
<1>2. /\ b \in Seq(Bytes) /\ Len(b) = u - t
      /\ \A i \in 1 .. u - t : b[i] = t + i
  <2>1. t + 1 \in Nat \ {0} /\ t + 1 <= u + 1 /\ u - (t + 1) + 1 = u - t
    BY TcpPipeAssumption
  <2>2. \A i \in 1 .. u - t : (t + 1) + i - 1 = t + i
    BY TcpPipeAssumption
  <2>3. /\ b \in Seq(Bytes) /\ Len(b) = u - (t + 1) + 1
        /\ \A i \in 1 .. u - (t + 1) + 1 : b[i] = (t + 1) + i - 1
    BY <2>1, PositionsAre
  <2> HIDE DEF b
  <2> QED
    BY <2>1, <2>2, <2>3
<1>3. /\ c \in Seq(Bytes) /\ Len(c) = u
      /\ \A i \in 1 .. u : c[i] = i
  BY PositionsAre, TcpPipeAssumption
<1> HIDE DEF a, b, c
<1>4. /\ a \o b \in Seq(Bytes) /\ Len(a \o b) = u
      /\ \A i \in 1 .. u : (a \o b)[i] = IF i <= t THEN a[i] ELSE b[i - t]
  <2>1. /\ a \o b \in Seq(Bytes) /\ Len(a \o b) = Len(a) + Len(b)
        /\ \A i \in 1 .. Len(a) + Len(b) : (a \o b)[i] = IF i <= Len(a) THEN a[i] ELSE b[i - Len(a)]
    BY ONLY <1>1, <1>2, ConcatProperties, ZenonT(40)
  <2>2. Len(a) = t /\ Len(a) + Len(b) = u
    BY <1>1, <1>2, TcpPipeAssumption
  <2> QED
    BY ONLY <2>1, <2>2, Zenon
<1>5. \A i \in 1 .. u : (a \o b)[i] = c[i]
  BY <1>1, <1>2, <1>3, <1>4, TcpPipeAssumption
<1>6. a \o b = c
  BY ONLY <1>3, <1>4, <1>5, SeqEqual, Zenon
<1> QED
  BY <1>6 DEF a, b, c

\* A partial write splits a chunk into what the sink took and what is kept.
LEMMA Split ==
  ASSUME NEW s \in Seq(Bytes), NEW n \in 0 .. Len(s)
  PROVE  /\ SubSeq(s, 1, n) \in Seq(Bytes)
         /\ Len(SubSeq(s, 1, n)) = n
         /\ SubSeq(s, n + 1, Len(s)) \in Seq(Bytes)
         /\ SubSeq(s, 1, n) \o SubSeq(s, n + 1, Len(s)) = s
<1> DEFINE a == SubSeq(s, 1, n)
           b == SubSeq(s, n + 1, Len(s))
<1>1. Len(s) \in Nat /\ \A i \in 1 .. Len(s) : s[i] \in Bytes
  BY LenProperties, ElementOfSeq
<1>2. /\ a \in Seq(Bytes) /\ Len(a) = n
      /\ \A i \in 1 .. n : a[i] = s[i]
  <2>1. \A i \in 1 .. n : s[i] \in Bytes
    BY <1>1
  <2>2. /\ a \in Seq(Bytes) /\ Len(a) = IF 1 <= n THEN n - 1 + 1 ELSE 0
        /\ \A i \in 1 .. n - 1 + 1 : a[i] = s[1 + i - 1]
    BY <1>1, <2>1, SubSeqProperties
  <2> HIDE DEF a
  <2> QED
    BY <1>1, <2>2
<1>3. /\ b \in Seq(Bytes) /\ Len(b) = Len(s) - n
      /\ \A i \in 1 .. Len(s) - n : b[i] = s[n + i]
  <2>1. \A i \in n + 1 .. Len(s) : s[i] \in Bytes
    BY <1>1
  <2>2. /\ b \in Seq(Bytes)
        /\ Len(b) = IF n + 1 <= Len(s) THEN Len(s) - (n + 1) + 1 ELSE 0
        /\ \A i \in 1 .. Len(s) - (n + 1) + 1 : b[i] = s[n + 1 + i - 1]
    BY <1>1, <2>1, SubSeqProperties
  <2> HIDE DEF a, b
  <2>3. n \in Nat /\ n <= Len(s)
    BY ONLY <1>1, n \in 0 .. Len(s)
  <2>4. Len(b) = Len(s) - n
    BY ONLY <1>1, <2>2, <2>3
  <2>5. ASSUME NEW i \in 1 .. Len(s) - n PROVE b[i] = s[n + i]
    <3>1. i \in 1 .. Len(s) - (n + 1) + 1 /\ n + 1 + i - 1 = n + i
      BY ONLY <1>1, <2>3, i \in 1 .. Len(s) - n
    <3> QED
      BY ONLY <2>2, <3>1, Zenon
  <2> QED
    BY ONLY <2>2, <2>4, <2>5, Zenon
<1> HIDE DEF a, b
<1>4. /\ a \o b \in Seq(Bytes) /\ Len(a \o b) = Len(s)
      /\ \A i \in 1 .. Len(s) : (a \o b)[i] = IF i <= n THEN a[i] ELSE b[i - n]
  <2>1. /\ a \o b \in Seq(Bytes) /\ Len(a \o b) = Len(a) + Len(b)
        /\ \A i \in 1 .. Len(a) + Len(b) : (a \o b)[i] = IF i <= Len(a) THEN a[i] ELSE b[i - Len(a)]
    BY ONLY <1>2, <1>3, ConcatProperties, ZenonT(40)
  <2>2. Len(a) = n /\ Len(a) + Len(b) = Len(s)
    BY <1>1, <1>2, <1>3
  <2> QED
    BY ONLY <2>1, <2>2, Zenon
<1>5. \A i \in 1 .. Len(s) : (a \o b)[i] = s[i]
  BY <1>1, <1>2, <1>3, <1>4
<1>6. a \o b = s
  BY ONLY s \in Seq(Bytes), <1>4, <1>5, SeqEqual, Zenon
<1> QED
  BY <1>2, <1>3, <1>6, Zenon DEF a, b

--------------------------------------------------------------------------------
\* Why idleness is bounded.  Without a restart since the last activity, nobody
\* has waited longer than the connection was quiet; a restart makes the ages
\* equal, and happens less than a timeout after that activity.
QuietBound ==
  \A d \in Directions : running[d] => quiet < age[d] + Timeout

\* Directions of different ages were not restarted together since the last activity.
RestartedTogether ==
  /\ running["Outgoing"] /\ running["Incoming"]
  /\ age["Outgoing"] # age["Incoming"]
  => \A d \in Directions : quiet <= age[d]

\* While the exchange goes on, some direction has not finished.
SomeoneRuns == status = "exchanging" => \E d \in Directions : running[d]

\* Nothing is taken that the peer has not sent.
TakenWasSent == \A d \in Directions : taken[d] <= produced[d]

\* The invariant of the data, and the inductive invariant of the pipe.
DataInv == TypeOK /\ NothingLost /\ BackPressure /\ EofIsLast /\ TakenWasSent

\* With what bounds its idleness.
PipeInv == DataInv /\ QuietBound /\ RestartedTogether /\ SomeoneRuns

\* The pipe starts with empty streams and fresh timers.
LEMMA PipeInvInit == Init => PipeInv
<1> SUFFICES ASSUME Init PROVE PipeInv
  OBVIOUS
<1>1. <<>> \in Seq(Bytes) /\ Len(<<>>) = 0
  BY EmptySeq
<1>2. TypeOK
  BY <1>1, TcpPipeAssumption DEF Init, Each, TypeOK, Bytes, Statuses
<1>3. Positions(1, 0) = <<>>
  BY PositionsAre, TcpPipeAssumption, EmptySeq
<1>4. NothingLost
  BY <1>1, <1>3, ConcatEmptySeq DEF Init, Each, NothingLost
<1>5. BackPressure /\ EofIsLast /\ TakenWasSent
  BY <1>1 DEF Init, Each, BackPressure, EofIsLast, TakenWasSent
<1>6. QuietBound /\ RestartedTogether /\ SomeoneRuns
  BY TcpPipeAssumption DEF Init, Each, QuietBound, RestartedTogether, SomeoneRuns, Directions
<1> QED
  BY <1>2, <1>4, <1>5, <1>6 DEF PipeInv, DataInv

\* A write of part of a chunk keeps delivered \o pending equal to what was
\* delivered before followed by the chunk.
LEMMA WriteKeeps ==
  ASSUME TypeOK, BackPressure, NEW d \in Directions, NEW chunk \in Seq(Bytes),
         NEW n \in 0 .. Len(chunk), Write(d, chunk, n)
  PROVE  /\ delivered' \in [Directions -> Seq(Bytes)]
         /\ pending' \in [Directions -> Seq(Bytes)]
         /\ consumed' \in [Directions -> Nat]
         /\ delivered'[d] \o pending'[d] = delivered[d] \o chunk
         /\ BackPressure'
<1> DEFINE a == SubSeq(chunk, 1, n)
           b == SubSeq(chunk, n + 1, Len(chunk))
<1>1. a \in Seq(Bytes) /\ Len(a) = n /\ b \in Seq(Bytes) /\ a \o b = chunk
  BY Split, Zenon
<1>2. /\ delivered' = [delivered EXCEPT ![d] = @ \o a]
      /\ pending' = [pending EXCEPT ![d] = b]
      /\ consumed' = [consumed EXCEPT ![d] = @ + n]
  BY DEF Write
<1>3. n \in Nat
  BY LenProperties
<1> HIDE DEF a, b
<1>4. /\ delivered \in [Directions -> Seq(Bytes)] /\ pending \in [Directions -> Seq(Bytes)]
      /\ consumed \in [Directions -> Nat]
  BY DEF TypeOK, Bytes
<1>5. delivered[d] \o a \in Seq(Bytes) /\ Len(delivered[d] \o a) = Len(delivered[d]) + n
  <2>1. delivered[d] \in Seq(Bytes)
    BY <1>4
  <2>2. delivered[d] \o a \in Seq(Bytes) /\ Len(delivered[d] \o a) = Len(delivered[d]) + Len(a)
    BY ONLY <1>1, <2>1, ConcatProperties, Zenon
  <2> QED
    BY ONLY <1>1, <2>2, Zenon
<1>6. delivered'[d] = delivered[d] \o a /\ pending'[d] = b
  BY <1>2, <1>4
<1>7. (delivered[d] \o a) \o b = delivered[d] \o (a \o b)
  <2> DEFINE x == delivered[d]
  <2>1. x \in Seq(Bytes) /\ a \in Seq(Bytes) /\ b \in Seq(Bytes)
    BY <1>1, <1>4
  <2> HIDE DEF x
  <2>2. (x \o a) \o b = x \o (a \o b)
    BY <2>1, ConcatAssociative
  <2> QED
    BY <2>2 DEF x
<1>8. delivered'[d] \o pending'[d] = delivered[d] \o chunk
  BY <1>1, <1>6, <1>7
<1>9. /\ delivered' \in [Directions -> Seq(Bytes)] /\ pending' \in [Directions -> Seq(Bytes)]
      /\ consumed' \in [Directions -> Nat]
  BY <1>1, <1>2, <1>3, <1>4, <1>5
<1>10. BackPressure'
  BY <1>2, <1>3, <1>4, <1>5, Zenon DEF BackPressure
<1> QED
  BY <1>8, <1>9, <1>10

\* Reading, writing, closing and failing preserve the data invariant.
LEMMA DataStep ==
  ASSUME PipeInv, NEW d \in Directions,
         \/ PeerSends(d) \/ PeerEnds(d)
         \/ ReadChunk(d) \/ ResumePending(d) \/ RelayEof(d) \/ Fail(d)
  PROVE  DataInv'
<1>0. /\ TypeOK /\ NothingLost /\ BackPressure /\ EofIsLast /\ TakenWasSent
      /\ delivered[d] \in Seq(Bytes) /\ pending[d] \in Seq(Bytes) /\ taken[d] \in 0 .. MaxBytes
  BY DEF PipeInv, DataInv, TypeOK, Bytes
<1>1. CASE PeerSends(d)
  <2>1. TypeOK'
    BY <1>0, <1>1, TcpPipeAssumption DEF TypeOK, PeerSends
  <2>2. NothingLost' /\ BackPressure'
    BY <1>0, <1>1, Zenon DEF PeerSends, NothingLost, BackPressure
  <2>3. EofIsLast' /\ TakenWasSent'
    BY <1>0, <1>1, TcpPipeAssumption DEF TypeOK, PeerSends, EofIsLast, TakenWasSent
  <2> QED
    BY <2>1, <2>2, <2>3 DEF DataInv
<1>2. CASE PeerEnds(d)
  BY <1>0, <1>2 DEF TypeOK, PeerEnds, NothingLost, BackPressure, EofIsLast, TakenWasSent, DataInv
<1>3. CASE ReadChunk(d)
  <2>1. PICK to \in taken[d] + 1 .. produced[d] :
          \E n \in 0 .. Len(Positions(taken[d] + 1, to)) :
            /\ taken' = [taken EXCEPT ![d] = to]
            /\ Write(d, Positions(taken[d] + 1, to), n)
    BY <1>3, Zenon DEF ReadChunk
  <2> DEFINE chunk == Positions(taken[d] + 1, to)
  <2>2. PICK n \in 0 .. Len(chunk) : taken' = [taken EXCEPT ![d] = to] /\ Write(d, chunk, n)
    BY <2>1
  <2>3. /\ to \in 0 .. MaxBytes /\ to \in Nat /\ to <= produced[d]
        /\ taken[d] <= to /\ taken[d] + 1 <= to + 1 /\ taken[d] + 1 \in Nat \ {0}
    BY <1>0, TcpPipeAssumption DEF TypeOK
  <2>4. chunk \in Seq(Bytes)
    BY <2>3, PositionsAre, Zenon
  <2>5. delivered[d] = Positions(1, taken[d])
    BY <1>0, <1>3, ConcatEmptySeq, Zenon DEF NothingLost, ReadChunk
  <2>6. delivered[d] \o chunk = Positions(1, to)
    BY <1>0, <2>3, <2>5, PositionsExtend, Zenon
  <2> HIDE DEF chunk
  <2>7. /\ delivered' \in [Directions -> Seq(Bytes)] /\ pending' \in [Directions -> Seq(Bytes)]
        /\ consumed' \in [Directions -> Nat]
        /\ delivered'[d] \o pending'[d] = Positions(1, to)
        /\ BackPressure'
    BY <1>0, <2>2, <2>4, <2>6, WriteKeeps, Zenon
  <2>8. TypeOK'
    <3>1. taken' \in [Directions -> 0 .. MaxBytes]
      BY <1>0, <2>2, <2>3 DEF TypeOK
    <3>2. age' \in [Directions -> 0 .. Timeout] /\ quiet' \in Nat
      BY <1>0, <2>2, TcpPipeAssumption DEF TypeOK, Write
    <3> QED
      BY <1>0, <1>3, <2>7, <3>1, <3>2, ZenonT(40) DEF TypeOK, ReadChunk, stream, Bytes
  <2>9. NothingLost'
    <3>1. taken'[d] = to
      BY <1>0, <2>2 DEF TypeOK
    <3>2. ASSUME NEW e \in Directions, e # d
          PROVE  delivered'[e] = delivered[e] /\ pending'[e] = pending[e] /\ taken'[e] = taken[e]
      BY <1>0, <2>2, <3>2 DEF TypeOK, Write
    <3> QED
      BY <1>0, <2>7, <3>1, <3>2, Zenon DEF NothingLost
  <2>10. EofIsLast'
    BY <1>0, <1>3, <2>2 DEF TypeOK, ReadChunk, Exchanging, Write, stream, EofIsLast
  <2>11. TakenWasSent'
    BY <1>0, <1>3, <2>2, <2>3 DEF TypeOK, ReadChunk, stream, TakenWasSent
  <2> QED
    BY <2>7, <2>8, <2>9, <2>10, <2>11 DEF DataInv
<1>4. CASE ResumePending(d)
  <2>1. PICK n \in 0 .. Len(pending[d]) : Write(d, pending[d], n)
    BY <1>4 DEF ResumePending
  <2>2. /\ delivered' \in [Directions -> Seq(Bytes)] /\ pending' \in [Directions -> Seq(Bytes)]
        /\ consumed' \in [Directions -> Nat]
        /\ delivered'[d] \o pending'[d] = delivered[d] \o pending[d]
        /\ BackPressure'
    BY <1>0, <2>1, WriteKeeps, Zenon
  <2>3. TypeOK'
    <3>1. age' \in [Directions -> 0 .. Timeout] /\ quiet' \in Nat
      BY <1>0, <2>1, TcpPipeAssumption DEF TypeOK, Write
    <3> QED
      BY <1>0, <1>4, <2>2, <3>1, ZenonT(40) DEF TypeOK, ResumePending, stream, Bytes
  <2>4. NothingLost'
    <3>1. ASSUME NEW e \in Directions, e # d
          PROVE  delivered'[e] = delivered[e] /\ pending'[e] = pending[e]
      BY <1>0, <2>1, <3>1 DEF TypeOK, Write
    <3> QED
      BY <1>0, <1>4, <2>2, <3>1, Zenon DEF NothingLost, ResumePending
  <2>5. EofIsLast' /\ TakenWasSent'
    BY <1>0, <1>4, <2>1 DEF TypeOK, ResumePending, Exchanging, Write, stream, EofIsLast, TakenWasSent
  <2> QED
    BY <2>2, <2>3, <2>4, <2>5 DEF DataInv
<1>5. CASE RelayEof(d)
  <2>1. TypeOK'
    BY <1>0, <1>5 DEF TypeOK, RelayEof, Statuses, stream
  <2>2. NothingLost' /\ BackPressure' /\ TakenWasSent'
    BY <1>0, <1>5, Zenon DEF RelayEof, stream, NothingLost, BackPressure, TakenWasSent
  <2>3. Len(delivered[d]) = produced[d]
    <3>1. delivered[d] = Positions(1, taken[d]) /\ taken[d] = produced[d]
      BY <1>0, <1>5, ConcatEmptySeq, Zenon DEF NothingLost, RelayEof
    <3>2. Len(Positions(1, taken[d])) = taken[d] - 1 + 1
      BY <1>0, PositionsAre
    <3> QED
      BY <1>0, <3>1, <3>2
  <2>4. EofIsLast'
    BY <1>0, <1>5, <2>3 DEF TypeOK, RelayEof, stream, EofIsLast
  <2> QED
    BY <2>1, <2>2, <2>4 DEF DataInv
<1>6. CASE Fail(d)
  BY <1>0, <1>6, Zenon
  DEF TypeOK, Fail, Statuses, stream, NothingLost, BackPressure, EofIsLast, TakenWasSent, DataInv
<1> QED
  BY <1>1, <1>2, <1>3, <1>4, <1>5, <1>6

\* Relaying resets the quiet time, the peers leave the timers alone, and a
\* failure leaves nothing to bound.
LEMMA ActivityStep ==
  ASSUME PipeInv, NEW d \in Directions,
         \/ PeerSends(d) \/ PeerEnds(d)
         \/ ReadChunk(d) \/ ResumePending(d) \/ RelayEof(d) \/ Fail(d)
  PROVE  QuietBound' /\ RestartedTogether' /\ SomeoneRuns'
<1>0. /\ TypeOK /\ QuietBound /\ RestartedTogether /\ SomeoneRuns
      /\ \A e \in Directions : age[e] \in 0 .. Timeout
  BY DEF PipeInv, DataInv, TypeOK
<1>1. CASE PeerSends(d) \/ PeerEnds(d) \/ Fail(d)
  <2>1. UNCHANGED <<running, age, quiet>> /\ (status' = status \/ status' = "failed")
    BY <1>1 DEF PeerSends, PeerEnds, Fail
  <2> QED
    BY <1>0, <2>1 DEF QuietBound, RestartedTogether, SomeoneRuns
<1>2. CASE ReadChunk(d) \/ ResumePending(d)
  <2>1. UNCHANGED <<running, status>> /\ age' = [age EXCEPT ![d] = 0] /\ quiet' = 0
    BY <1>2, Zenon DEF ReadChunk, ResumePending, Write
  <2>2. \A e \in Directions : age'[e] \in 0 .. Timeout
    BY <1>0, <2>1, TcpPipeAssumption DEF TypeOK
  <2> QED
    BY <1>0, <2>1, <2>2, TcpPipeAssumption DEF QuietBound, RestartedTogether, SomeoneRuns, Directions
<1>3. CASE RelayEof(d)
  <2>1. quiet' = 0 /\ age' = age
    BY <1>3 DEF RelayEof
  <2>2. QuietBound' /\ RestartedTogether'
    BY <1>0, <2>1, TcpPipeAssumption DEF QuietBound, RestartedTogether, Directions
  <2>3. SomeoneRuns'
    BY <1>0, <1>3 DEF TypeOK, RelayEof, Exchanging, SomeoneRuns, Other, Directions
  <2> QED
    BY <2>2, <2>3
<1> QED
  BY <1>1, <1>2, <1>3

\* A timeout either ends the pipe or restarts both timers, the latter less
\* than a timeout after the last activity.
LEMMA TimeOutStep ==
  ASSUME PipeInv, NEW d \in Directions, TimeOut(d)
  PROVE  PipeInv'
<1>0. /\ TypeOK /\ NothingLost /\ BackPressure /\ EofIsLast /\ TakenWasSent
      /\ QuietBound /\ RestartedTogether /\ SomeoneRuns
      /\ \A e \in Directions : age[e] \in 0 .. Timeout
      /\ quiet \in Nat
  BY DEF PipeInv, DataInv, TypeOK
<1>1. UNCHANGED <<produced, ended, taken, pending, delivered, consumed, running, quiet>>
  BY DEF TimeOut, stream
<1>2. age' \in [Directions -> 0 .. Timeout] /\ status' \in Statuses
  <2>1. Each(0) \in [Directions -> 0 .. Timeout]
    BY TcpPipeAssumption DEF Each
  <2>2. (age' = age \/ age' = Each(0)) /\ (status' = status \/ status' = "timed_out")
    BY DEF TimeOut
  <2> QED
    BY <1>0, <2>1, <2>2, Zenon DEF TypeOK, Statuses
<1>3. DataInv'
  BY <1>0, <1>1, <1>2, Zenon DEF DataInv, TypeOK, NothingLost, BackPressure, EofIsLast, TakenWasSent
<1>4. CASE status' = "timed_out" /\ age' = age
  BY <1>0, <1>1, <1>3, <1>4 DEF PipeInv, QuietBound, RestartedTogether, SomeoneRuns
<1>5. CASE age' = Each(0) /\ status' = status /\ running[Other(d)] /\ age[Other(d)] < Timeout
  <2>1. age[d] # age[Other(d)] /\ running[d] /\ running[Other(d)]
    BY <1>0, <1>5, TcpPipeAssumption DEF TimeOut, Exchanging
  <2>2. Other(d) \in Directions
    BY DEF Other, Directions
  <2>3. quiet <= age[Other(d)]
    BY <1>0, <2>1, <2>2 DEF RestartedTogether, Other, Directions
  <2>4. quiet < Timeout
    BY <1>0, <1>5, <2>2, <2>3, TcpPipeAssumption
  <2>5. QuietBound' /\ RestartedTogether'
    BY <1>0, <1>1, <1>5, <2>4, TcpPipeAssumption DEF Each, QuietBound, RestartedTogether, Directions
  <2>6. SomeoneRuns'
    BY <1>0, <1>1, <1>5 DEF SomeoneRuns
  <2> QED
    BY <1>3, <2>5, <2>6 DEF PipeInv
<1>6. Other(d) \in Directions
  BY DEF Other, Directions
<1>7. \/ status' = "timed_out" /\ age' = age
      \/ age' = Each(0) /\ status' = status /\ running[Other(d)] /\ age[Other(d)] < Timeout
  BY <1>0, <1>6, TcpPipeAssumption DEF TimeOut
<1> QED
  BY <1>4, <1>5, <1>7

\* Time passes for every running direction at once.
LEMMA TickStep ==
  ASSUME PipeInv, Tick
  PROVE  PipeInv'
<1>0. /\ TypeOK /\ NothingLost /\ BackPressure /\ EofIsLast /\ TakenWasSent
      /\ QuietBound /\ RestartedTogether /\ SomeoneRuns
      /\ \A e \in Directions : age[e] \in 0 .. Timeout
      /\ quiet \in Nat
  BY DEF PipeInv, DataInv, TypeOK
<1>1. /\ UNCHANGED <<produced, ended, taken, pending, delivered, consumed, running, status>>
      /\ quiet' = quiet + 1
      /\ \A e \in Directions : running[e] => age[e] < Timeout
      /\ age' = [e \in Directions |-> IF running[e] THEN age[e] + 1 ELSE age[e]]
  BY DEF Tick, stream
<1>2. age' \in [Directions -> 0 .. Timeout] /\ quiet' \in Nat
  BY <1>0, <1>1, TcpPipeAssumption
<1>3. DataInv'
  BY <1>0, <1>1, <1>2 DEF DataInv, TypeOK, NothingLost, BackPressure, EofIsLast, TakenWasSent
<1>4. QuietBound' /\ RestartedTogether' /\ SomeoneRuns'
  BY <1>0, <1>1, TcpPipeAssumption DEF QuietBound, RestartedTogether, SomeoneRuns, Directions
<1> QED
  BY <1>3, <1>4 DEF PipeInv

\* Every step of the pipe preserves the invariant.
LEMMA PipeInvStep == PipeInv /\ [Next]_vars => PipeInv'
<1> SUFFICES ASSUME PipeInv, [Next]_vars PROVE PipeInv'
  OBVIOUS
<1>1. CASE Tick
  BY <1>1, TickStep
<1>2. ASSUME NEW d \in Directions, TimeOut(d) PROVE PipeInv'
  BY <1>2, TimeOutStep
<1>3. ASSUME NEW d \in Directions,
             \/ PeerSends(d) \/ PeerEnds(d)
             \/ ReadChunk(d) \/ ResumePending(d) \/ RelayEof(d) \/ Fail(d)
      PROVE  PipeInv'
  BY <1>3, DataStep, ActivityStep DEF PipeInv
<1>4. CASE UNCHANGED vars
  BY <1>4 DEF vars, stream, PipeInv, DataInv, TypeOK, NothingLost, BackPressure, EofIsLast,
     TakenWasSent, QuietBound, RestartedTogether, SomeoneRuns
<1> QED
  BY <1>1, <1>2, <1>3, <1>4 DEF Next

\* PipeInv is an inductive invariant of the pipe.
THEOREM PipeInvariant == Spec => []PipeInv
<1> QED
  BY PipeInvInit, PipeInvStep, PTL DEF Spec

\* Type correctness of the pipe's state, for every timeout and stream length.
THEOREM TypeCorrect == Spec => []TypeOK
<1>1. PipeInv => TypeOK
  BY DEF PipeInv, DataInv
<1> QED
  BY <1>1, PipeInvariant, PTL

\* SimplexPipe::exchange loses, repeats and swaps no byte, whatever part of
\* each chunk the sinks accept and whenever timeouts restart the directions.
THEOREM StreamsIntact == Spec => []NothingLost
<1>1. PipeInv => NothingLost
  BY DEF PipeInv, DataInv
<1> QED
  BY <1>1, PipeInvariant, PTL

\* Sources get back exactly the window of what their sinks accepted.
THEOREM WindowFollowsSink == Spec => []BackPressure
<1>1. PipeInv => BackPressure
  BY DEF PipeInv, DataInv
<1> QED
  BY <1>1, PipeInvariant, PTL

\* A sink sees the end of its stream only after all of it.
THEOREM EofAfterData == Spec => []EofIsLast
<1>1. PipeInv => EofIsLast
  BY DEF PipeInv, DataInv
<1> QED
  BY <1>1, PipeInvariant, PTL

\* DuplexPipe::exchange never stays idle for twice its timeout.
THEOREM IdleBound == Spec => []IdleIsBounded
<1>1. PipeInv => IdleIsBounded
  <2> SUFFICES ASSUME PipeInv, status = "exchanging" PROVE quiet < 2 * Timeout
    BY DEF IdleIsBounded
  <2>1. PICK d \in Directions : running[d]
    BY DEF PipeInv, SomeoneRuns
  <2>2. quiet < age[d] + Timeout /\ age[d] \in 0 .. Timeout /\ quiet \in Nat
    BY <2>1 DEF PipeInv, DataInv, TypeOK, QuietBound
  <2> QED
    BY <2>2, TcpPipeAssumption
<1> QED
  BY <1>1, PipeInvariant, PTL

--------------------------------------------------------------------------------
(* TcpPipe implements Relay.                                                 *)

\* What is delivered, being the front of what was read, is a front of the
\* stream.
LEMMA FrontOfStream ==
  ASSUME NEW s \in Seq(Bytes), NEW t \in Seq(Bytes), NEW k \in 0 .. MaxBytes,
         s \o t = Positions(1, k)
  PROVE  Len(s) \in 0 .. k /\ s = Promised!First(Len(s))
<1>1. Len(s) \in Nat /\ Len(t) \in Nat /\ s \in [1 .. Len(s) -> Bytes]
  BY LenProperties
<1>2. Len(s \o t) = Len(s) + Len(t)
      /\ \A i \in 1 .. Len(s) + Len(t) : (s \o t)[i] = IF i <= Len(s) THEN s[i] ELSE t[i - Len(s)]
  BY ConcatProperties, Zenon
<1>3. Len(Positions(1, k)) = k /\ \A i \in 1 .. k : Positions(1, k)[i] = i
  <2>1. k \in Nat /\ 1 \in Nat \ {0} /\ 1 <= k + 1
    BY TcpPipeAssumption
  <2>2. /\ Len(Positions(1, k)) = k - 1 + 1
        /\ \A i \in 1 .. k - 1 + 1 : Positions(1, k)[i] = 1 + i - 1
    BY <2>1, PositionsAre, Zenon
  <2> QED
    BY ONLY <2>1, <2>2
<1>4. Len(s) \in 0 .. k
  BY <1>1, <1>2, <1>3
<1>5. \A i \in 1 .. Len(s) : s[i] = i
  BY <1>1, <1>2, <1>3, <1>4
<1>6. s = [i \in 1 .. Len(s) |-> i]
  BY ONLY <1>1, <1>5
<1> QED
  BY <1>4, <1>6 DEF Promised!First

\* A write makes what is delivered longer, never shorter.
LEMMA WriteExtends ==
  ASSUME TypeOK, NEW d \in Directions, NEW chunk \in Seq(Bytes),
         NEW n \in 0 .. Len(chunk), Write(d, chunk, n)
  PROVE  /\ delivered' = [delivered EXCEPT ![d] = delivered'[d]]
         /\ Len(delivered[d]) <= Len(delivered'[d])
<1> DEFINE a == SubSeq(chunk, 1, n)
<1>0. n \in Nat
  BY LenProperties
<1>1. a \in Seq(Bytes) /\ Len(a) = n /\ n \in Nat
  BY <1>0, Split, Zenon
<1>2. delivered' = [delivered EXCEPT ![d] = @ \o a]
  BY DEF Write
<1> HIDE DEF a
<1>3. delivered[d] \in Seq(Bytes) /\ delivered \in [Directions -> Seq(Bytes)]
  BY DEF TypeOK, Bytes
<1>4. delivered'[d] = delivered[d] \o a
  BY <1>2, <1>3
<1>5. Len(delivered[d] \o a) = Len(delivered[d]) + Len(a) /\ Len(delivered[d]) \in Nat
  BY ONLY <1>1, <1>3, ConcatProperties, LenProperties, Zenon
<1>6. delivered' = [delivered EXCEPT ![d] = delivered'[d]]
  BY ONLY <1>2, <1>4, Zenon
<1>7. Len(delivered'[d]) = Len(delivered[d]) + n
  BY ONLY <1>1, <1>4, <1>5, Zenon
<1>8. Len(delivered[d]) <= Len(delivered'[d])
  BY ONLY <1>1, <1>5, <1>7
<1> QED
  BY <1>6, <1>8

\* The pipe starts as Relay does.
LEMMA RefinesInit == Init => Promised!Init
  BY Zenon DEF Init, Promised!Init, Each

\* More of a stream is delivered: ReadChunk and ResumePending are steps of
\* Relay's Deliver.
LEMMA RefinesDeliver ==
  ASSUME PipeInv, PipeInv', NEW d \in Directions, ReadChunk(d) \/ ResumePending(d)
  PROVE  Promised!Deliver(d)
<1>0. /\ TypeOK /\ delivered'[d] \in Seq(Bytes) /\ pending'[d] \in Seq(Bytes)
      /\ pending[d] \in Seq(Bytes) /\ taken'[d] \in 0 .. MaxBytes /\ taken[d] \in 0 .. MaxBytes
      /\ produced[d] \in 0 .. MaxBytes
      /\ taken'[d] <= produced'[d] /\ delivered'[d] \o pending'[d] = Positions(1, taken'[d])
  BY Zenon DEF PipeInv, DataInv, TypeOK, TakenWasSent, NothingLost, Bytes
<1>1. /\ UNCHANGED <<stream, running, status>> /\ status = "exchanging" /\ running[d]
      /\ \E chunk \in Seq(Bytes) : \E n \in 0 .. Len(chunk) : Write(d, chunk, n)
  <2>1. CASE ReadChunk(d)
    <3>1. PICK to \in taken[d] + 1 .. produced[d] :
            \E n \in 0 .. Len(Positions(taken[d] + 1, to)) : Write(d, Positions(taken[d] + 1, to), n)
      BY <2>1, Zenon DEF ReadChunk
    <3>2. /\ to \in 0 .. MaxBytes /\ taken[d] + 1 \in Nat \ {0} /\ taken[d] + 1 <= to + 1
      BY <1>0, TcpPipeAssumption
    <3>3. Positions(taken[d] + 1, to) \in Seq(Bytes)
      BY <3>2, PositionsAre, Zenon
    <3> QED
      BY <2>1, <3>1, <3>3, Zenon DEF ReadChunk, Exchanging
  <2>2. CASE ResumePending(d)
    BY <1>0, <2>2, Zenon DEF ResumePending, Exchanging
  <2> QED
    BY <2>1, <2>2
<1>2. PICK chunk \in Seq(Bytes) : \E n \in 0 .. Len(chunk) : Write(d, chunk, n)
  BY <1>1
<1>3. PICK n \in 0 .. Len(chunk) : Write(d, chunk, n)
  BY <1>2
<1>4. /\ delivered' = [delivered EXCEPT ![d] = delivered'[d]]
      /\ Len(delivered[d]) <= Len(delivered'[d])
  BY <1>0, <1>3, WriteExtends, Zenon
<1>5. Len(delivered'[d]) \in 0 .. taken'[d] /\ delivered'[d] = Promised!First(Len(delivered'[d]))
  BY <1>0, FrontOfStream, Zenon
<1>6. Len(delivered'[d]) \in Len(delivered[d]) .. produced[d]
  <2>1. Len(delivered[d]) \in Nat
    BY LenProperties DEF PipeInv, DataInv, TypeOK
  <2>2. produced' = produced
    BY <1>1 DEF stream
  <2> QED
    BY <1>0, <1>4, <1>5, <2>1, <2>2
<1>7. \E m \in Len(delivered[d]) .. produced[d] :
        delivered' = [delivered EXCEPT ![d] = Promised!First(m)]
  BY <1>4, <1>5, <1>6, ZenonT(40)
<1> QED
  BY <1>1, <1>7, Zenon DEF Promised!Deliver, stream

\* The end of one direction is a step of Relay's Close; the second one leaves
\* nobody running.
LEMMA RefinesClose ==
  ASSUME PipeInv, PipeInv', NEW d \in Directions, RelayEof(d)
  PROVE  Promised!Close(d)
<1>1. /\ status = "exchanging" /\ running[d] /\ ended[d]
      /\ running' = [running EXCEPT ![d] = FALSE]
      /\ status' = IF running[Other(d)] THEN status ELSE "finished"
      /\ UNCHANGED <<produced, ended, delivered>>
  BY DEF RelayEof, Exchanging, stream
<1>2. running \in [Directions -> BOOLEAN]
  BY DEF PipeInv, DataInv, TypeOK
<1>3. Len(delivered[d]) = produced[d]
  <2>1. ~ running'[d]
    BY <1>1, <1>2
  <2> QED
    BY <1>1, <2>1 DEF PipeInv, DataInv, EofIsLast
<1>4. [e \in Directions |-> ~ running'[e]] = [[e \in Directions |-> ~ running[e]] EXCEPT ![d] = TRUE]
  BY <1>1, <1>2, Zenon
<1>5. (status' = "exchanging") = \E e \in Directions : ~ [f \in Directions |-> ~ running'[f]][e]
  <2>1. Other(d) \in Directions /\ Other(d) # d /\ Directions = {d, Other(d)}
    BY DEF Other, Directions
  <2> QED
    BY <1>1, <1>2, <2>1, Zenon
<1> QED
  BY <1>1, <1>3, <1>4, <1>5, Zenon DEF Promised!Close

\* Every step of the pipe is a step of Relay or changes nothing of it.
LEMMA RefinesStep == PipeInv /\ PipeInv' /\ [Next]_vars => [Promised!Next]_(Promised!vars)
<1> SUFFICES ASSUME PipeInv, PipeInv', [Next]_vars
             PROVE  Promised!Next \/ UNCHANGED Promised!vars
  OBVIOUS
<1>1. ASSUME NEW d \in Directions, PeerSends(d) PROVE Promised!Send(d)
  BY <1>1 DEF PeerSends, Promised!Send
<1>2. ASSUME NEW d \in Directions, PeerEnds(d) PROVE Promised!End(d)
  BY <1>2 DEF PeerEnds, Promised!End
<1>3. ASSUME NEW d \in Directions, ReadChunk(d) \/ ResumePending(d) PROVE Promised!Deliver(d)
  BY <1>3, RefinesDeliver
<1>4. ASSUME NEW d \in Directions, RelayEof(d) PROVE Promised!Close(d)
  BY <1>4, RefinesClose
<1>5. ASSUME NEW d \in Directions, Fail(d) PROVE Promised!Cut
  BY <1>5 DEF Fail, Exchanging, stream, Promised!Cut
<1>6. ASSUME NEW d \in Directions, TimeOut(d) PROVE Promised!Cut \/ UNCHANGED Promised!vars
  BY <1>6 DEF TimeOut, Exchanging, stream, Promised!Cut, Promised!vars
<1>7. CASE Tick \/ UNCHANGED vars
  BY <1>7 DEF Tick, vars, stream, Promised!vars
<1> QED
  BY <1>1, <1>2, <1>3, <1>4, <1>5, <1>6, <1>7 DEF Next, Promised!Next

\* However DuplexPipe::exchange and SimplexPipe::exchange split, keep and
\* resume chunks, their peers see what Relay promises.
THEOREM PipeRefinesRelay == Spec => ImplementsRelay
<1> QED
  BY PipeInvariant, RefinesInit, RefinesStep, PTL DEF Spec, ImplementsRelay, Promised!Spec

--------------------------------------------------------------------------------
(* The graceful shutdown.                                                    *)

\* The invariant of the shutdown, alone and within the process.
ShutdownInv ==
  /\ state \in [Things -> Process!ThingStates]
  /\ notice \in [Things -> BOOLEAN]
  /\ guard \in [Things -> BOOLEAN]
  /\ CompletionIsFinal

\* The steps of the application and of the things keep the invariant: whoever
\* joins after completion() was called gets no guard.
LEMMA ShutdownSteps ==
  ASSUME ShutdownInv,
         \/ Process!Submit \/ Process!CallCompletion \/ Process!CompletionReturns
         \/ \E t \in Things : Process!ThingStep(t)
  PROVE  /\ ShutdownInv'
         /\ \A t \in Things : notice[t] /\ ~ notice'[t] => state'[t] # "listening"
<1>1. CASE Process!Submit
  BY <1>1 DEF ShutdownInv, Process!Submit, CompletionIsFinal, Process!CompletionIsFinal
<1>2. CASE Process!CallCompletion
  BY <1>2 DEF ShutdownInv, Process!CallCompletion, CompletionIsFinal, Process!CompletionIsFinal
<1>3. CASE Process!CompletionReturns
  BY <1>3 DEF ShutdownInv, Process!CompletionReturns, CompletionIsFinal, Process!CompletionIsFinal
<1>4. ASSUME NEW t \in Things, Process!Join(t)
      PROVE  /\ ShutdownInv'
             /\ \A u \in Things : notice[u] /\ ~ notice'[u] => state'[u] # "listening"
  <2>1. /\ state' = [state EXCEPT ![t] = "listening"] /\ UNCHANGED <<notice, completion>>
        /\ guard' = [guard EXCEPT ![t] = (completion = "not_called")]
    BY <1>4 DEF Process!Join, Process!SenderKept
  <2>2. state' \in [Things -> Process!ThingStates]
    BY <2>1 DEF ShutdownInv, Process!ThingStates
  <2>3. guard' \in [Things -> BOOLEAN] /\ (completion = "returned" => guard' = [guard EXCEPT ![t] = FALSE])
    BY <2>1, Zenon DEF ShutdownInv
  <2>4. QED
    BY <2>1, <2>2, <2>3 DEF ShutdownInv, CompletionIsFinal, Process!CompletionIsFinal
<1>5. ASSUME NEW t \in Things, Process!Block(t) \/ Process!Notified(t)
      PROVE  /\ ShutdownInv'
             /\ \A u \in Things : notice[u] /\ ~ notice'[u] => state'[u] # "listening"
  BY <1>5, ZenonT(40) DEF ShutdownInv, Process!Block, Process!Notified, Process!ThingStates,
              CompletionIsFinal, Process!CompletionIsFinal
<1>6. ASSUME NEW t \in Things, Process!Leave(t)
      PROVE  /\ ShutdownInv'
             /\ \A u \in Things : notice[u] /\ ~ notice'[u] => state'[u] # "listening"
  BY <1>6 DEF ShutdownInv, Process!Leave, Process!ThingStates, CompletionIsFinal,
              Process!CompletionIsFinal
<1>7. QED
  BY <1>1, <1>2, <1>3, <1>4, <1>5, <1>6 DEF Process!ThingStep

\* A step of the bundle is one of these, or leaves the shutdown alone.
LEMMA ShutdownStep ==
  ASSUME ShutdownInv, [NextAll]_allVars
  PROVE  /\ ShutdownInv'
         /\ [\A t \in Things : notice[t] /\ ~ notice'[t] => state'[t] # "listening"]_(Process!vars)
<1>1. CASE \/ Process!Submit \/ Process!CallCompletion \/ Process!CompletionReturns
           \/ \E t \in Things : Process!ThingStep(t)
  BY <1>1, ShutdownSteps
<1>2. CASE UNCHANGED Process!vars
  BY <1>2 DEF Process!vars, ShutdownInv, CompletionIsFinal, Process!CompletionIsFinal
<1>3. QED
  BY <1>1, <1>2
  DEF NextAll, allVars, InPipe, InShutdown, InEndpoint, Process!Next, Process!EndpointNext,
      Process!Running, Process!ListenReturns, Process!ListenFails, Process!ReloadFails, process,
      Process!vars

\* The shutdown alone starts without things, the process with Core::listen.
LEMMA ShutdownInit == InitAll => ShutdownInv
  BY Zenon DEF InitAll, Process!Init, Process!EndpointInit, ShutdownInv, Process!ThingStates,
         CompletionIsFinal, Process!CompletionIsFinal

\* The invariant holds of every behaviour.
LEMMA ShutdownInvariant == SpecAll => []ShutdownInv
<1>1. ShutdownInv /\ [NextAll]_allVars => ShutdownInv'
  BY ShutdownStep
<1>2. QED
  BY <1>1, ShutdownInit, PTL DEF SpecAll

\* completion() returns after every guard is dropped, and no guard is taken
\* afterwards (Shutdown::completion, completion_guard), for any things and workers.
THEOREM CompletionStaysFinal == SpecAll => []CompletionIsFinal
<1>1. ShutdownInv => CompletionIsFinal
  BY DEF ShutdownInv
<1>2. QED
  BY <1>1, ShutdownInvariant, PTL

\* A subscriber of the shutdown keeps its notification for as long as it listens
\* (Shutdown::submit, notification_handler).
THEOREM NoNoticeIsLost == SpecAll => NoticeIsKept
<1>1. ShutdownInv /\ [NextAll]_allVars =>
        [\A t \in Things : notice[t] /\ ~ notice'[t] => state'[t] # "listening"]_(Process!vars)
  BY ShutdownStep
<1>2. QED
  BY <1>1, ShutdownInvariant, PTL DEF SpecAll, NoticeIsKept, Process!NoticeIsKept

================================================================================
