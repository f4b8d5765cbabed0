---------------------------- MODULE UuidV7_proofs ----------------------------
(***************************************************************************)
(* The order and the stamps of identifiers for every milliseconds reading that    *)
(* fits six bytes and all random bytes.  That identifiers sort like their  *)
(* moments is a fact of arithmetic: of two numbers the larger has the      *)
(* larger byte where their digits first differ.                            *)
(***************************************************************************)
EXTENDS UuidV7, SequenceTheorems, TLAPS

\* Dividing by 256 keeps the order, or leaves it to the byte divided off.
LEMMA Carry ==
  ASSUME NEW m \in Nat, NEW n \in Nat
  PROVE  /\ m \div 256 \in Nat /\ m % 256 \in Byte
         /\ m < n => \/ m \div 256 < n \div 256
                     \/ m \div 256 = n \div 256 /\ m % 256 < n % 256
<1>1. /\ m = 256 * (m \div 256) + (m % 256) /\ m % 256 \in 0 .. 255 /\ m \div 256 \in Nat
      /\ n = 256 * (n \div 256) + (n % 256) /\ n % 256 \in 0 .. 255 /\ n \div 256 \in Nat
  OBVIOUS
<1> DEFINE q == m \div 256  r == m % 256  p == n \div 256  s == n % 256
<1>2. q \in Nat /\ p \in Nat /\ r \in 0 .. 255 /\ s \in 0 .. 255
      /\ m = 256 * q + r /\ n = 256 * p + s
  BY <1>1
<1> HIDE DEF q, r, p, s
<1>3. m < n => q < p \/ (q = p /\ r < s)
  BY <1>2
<1> QED
  BY <1>1, <1>3 DEF q, r, p, s, Byte

\* The shifted values of a moment, one division after another.
LEMMA ShiftedStep ==
  ASSUME NEW m \in Nat, NEW k \in 1 .. 6
  PROVE  /\ Shifted(m)[1] = m
         /\ Shifted(m)[k] \in Nat
         /\ Shifted(m)[7] \in Nat
         /\ Shifted(m)[k + 1] = Shifted(m)[k] \div 256
<1> DEFINE q1 == m \div 256
           q2 == q1 \div 256
           q3 == q2 \div 256
           q4 == q3 \div 256
           q5 == q4 \div 256
           q6 == q5 \div 256
<1>1. Shifted(m) = <<m, q1, q2, q3, q4, q5, q6>>
  BY DEF Shifted
<1>2. q1 \in Nat /\ q2 \in Nat /\ q3 \in Nat /\ q4 \in Nat /\ q5 \in Nat /\ q6 \in Nat
  <2>1. q1 \in Nat
    BY Carry
  <2> HIDE DEF q1
  <2>2. q2 \in Nat
    BY <2>1, Carry
  <2> HIDE DEF q2
  <2>3. q3 \in Nat
    BY <2>2, Carry
  <2> HIDE DEF q3
  <2>4. q4 \in Nat
    BY <2>3, Carry
  <2> HIDE DEF q4
  <2>5. q5 \in Nat
    BY <2>4, Carry
  <2> HIDE DEF q5
  <2>6. q6 \in Nat
    BY <2>5, Carry
  <2> QED
    BY <2>1, <2>2, <2>3, <2>4, <2>5, <2>6
<1>3. /\ q2 = q1 \div 256 /\ q3 = q2 \div 256 /\ q4 = q3 \div 256
      /\ q5 = q4 \div 256 /\ q6 = q5 \div 256 /\ q1 = m \div 256
  OBVIOUS
<1> HIDE DEF q1, q2, q3, q4, q5, q6
<1>4. k = 1 \/ k = 2 \/ k = 3 \/ k = 4 \/ k = 5 \/ k = 6
  OBVIOUS
<1> QED
  BY <1>1, <1>2, <1>3, <1>4

\* Two moments one of which is smaller are told apart by some byte, the higher
\* bytes being equal.
LEMMA FirstDifference ==
  ASSUME NEW m \in Nat, NEW n \in Nat, m < n, FitsSixBytes(m), FitsSixBytes(n)
  PROVE  \E k \in 1 .. 6 : /\ to_bytes(m)[k] < to_bytes(n)[k]
                           /\ \A j \in 1 .. k - 1 : to_bytes(m)[j] = to_bytes(n)[j]
<1> DEFINE a(k) == Shifted(m)[k]  b(k) == Shifted(n)[k]
<1>1. \A k \in 1 .. 6 :
          /\ a(k) < b(k) => \/ a(k + 1) < b(k + 1)
                            \/ a(k + 1) = b(k + 1) /\ to_bytes(m)[7 - k] < to_bytes(n)[7 - k]
          /\ a(k) = b(k) => a(k + 1) = b(k + 1) /\ to_bytes(m)[7 - k] = to_bytes(n)[7 - k]
  <2> TAKE k \in 1 .. 6
  <2>1. a(k) \in Nat /\ b(k) \in Nat /\ a(k + 1) = a(k) \div 256 /\ b(k + 1) = b(k) \div 256
    BY ShiftedStep
  <2>2. to_bytes(m)[7 - k] = a(k) % 256 /\ to_bytes(n)[7 - k] = b(k) % 256
    <3>1. 7 - k \in 1 .. 6 /\ 7 - (7 - k) = k
      OBVIOUS
    <3> QED
      BY <3>1 DEF to_bytes
  <2> HIDE DEF a, b
  <2> QED
    BY <2>1, <2>2, Carry
<1>2. a(1) < b(1) /\ a(7) = 0 /\ b(7) = 0
  BY ShiftedStep DEF FitsSixBytes
<1> HIDE DEF a, b
<1>3. PICK k \in 1 .. 6 :
          /\ to_bytes(m)[7 - k] < to_bytes(n)[7 - k]
          /\ a(k + 1) = b(k + 1)
  <2>1. /\ a(1) < b(1) => \/ a(2) < b(2)
                          \/ a(2) = b(2) /\ to_bytes(m)[7 - 1] < to_bytes(n)[7 - 1]
        /\ a(2) < b(2) => \/ a(3) < b(3)
                          \/ a(3) = b(3) /\ to_bytes(m)[7 - 2] < to_bytes(n)[7 - 2]
        /\ a(3) < b(3) => \/ a(4) < b(4)
                          \/ a(4) = b(4) /\ to_bytes(m)[7 - 3] < to_bytes(n)[7 - 3]
        /\ a(4) < b(4) => \/ a(5) < b(5)
                          \/ a(5) = b(5) /\ to_bytes(m)[7 - 4] < to_bytes(n)[7 - 4]
        /\ a(5) < b(5) => \/ a(6) < b(6)
                          \/ a(6) = b(6) /\ to_bytes(m)[7 - 5] < to_bytes(n)[7 - 5]
        /\ a(6) < b(6) => \/ a(7) < b(7)
                          \/ a(7) = b(7) /\ to_bytes(m)[7 - 6] < to_bytes(n)[7 - 6]
    BY <1>1
  <2>2. a(2) = a(1 + 1) /\ a(3) = a(2 + 1) /\ a(4) = a(3 + 1) /\ a(5) = a(4 + 1)
        /\ a(6) = a(5 + 1) /\ a(7) = a(6 + 1)
    OBVIOUS
  <2>3. b(2) = b(1 + 1) /\ b(3) = b(2 + 1) /\ b(4) = b(3 + 1) /\ b(5) = b(4 + 1)
        /\ b(6) = b(5 + 1) /\ b(7) = b(6 + 1)
    OBVIOUS
  <2>4. ~(a(7) < b(7))
    BY <1>2
  <2> QED
    BY <1>2, <2>1, <2>2, <2>3, <2>4
<1>4. \A j \in k + 1 .. 6 : to_bytes(m)[7 - j] = to_bytes(n)[7 - j]
  <2>1. k + 1 = 7 \/ k + 1 = 6 \/ k + 1 = 5 \/ k + 1 = 4 \/ k + 1 = 3 \/ k + 1 = 2
    OBVIOUS
  <2>2. /\ a(2) = b(2) => a(3) = b(3) /\ to_bytes(m)[7 - 2] = to_bytes(n)[7 - 2]
        /\ a(3) = b(3) => a(4) = b(4) /\ to_bytes(m)[7 - 3] = to_bytes(n)[7 - 3]
        /\ a(4) = b(4) => a(5) = b(5) /\ to_bytes(m)[7 - 4] = to_bytes(n)[7 - 4]
        /\ a(5) = b(5) => a(6) = b(6) /\ to_bytes(m)[7 - 5] = to_bytes(n)[7 - 5]
        /\ a(6) = b(6) => to_bytes(m)[7 - 6] = to_bytes(n)[7 - 6]
    BY <1>1
  <2>3. \A j \in k + 1 .. 6 : j = 2 \/ j = 3 \/ j = 4 \/ j = 5 \/ j = 6
    OBVIOUS
  <2> QED
    BY <1>3, <2>1, <2>2, <2>3
<1>5. \A j \in 1 .. (7 - k) - 1 : to_bytes(m)[j] = to_bytes(n)[j]
  <2> TAKE j \in 1 .. (7 - k) - 1
  <2>1. 7 - j \in k + 1 .. 6 /\ 7 - (7 - j) = j
    OBVIOUS
  <2> QED
    BY <1>4, <2>1
<1>6. 7 - k \in 1 .. 6
  OBVIOUS
<1> QED
  BY <1>3, <1>5, <1>6

-----------------------------------------------------------------------------
(***************************************************************************)
(* The identifiers of a process.                                           *)
(***************************************************************************)

\* Every identifier issued is stamped over some random bytes and carries the
\* moment it says.
Stamped ==
    \A r \in Issued : \E noise \in Noise :
        r.at \in Nat /\ FitsSixBytes(r.at) /\ r.id = Payload(r.at, noise)

IInv ==
    /\ issued \in Seq([at : Nat, id : [1 .. 16 -> Byte]])
    /\ milliseconds \in Readings
    /\ Stamped

\* The stamps are bytes, and the two predicates read them back.
LEMMA PayloadIsAccepted ==
  ASSUME NEW m \in Nat, NEW noise \in Noise
  PROVE  /\ Payload(m, noise) \in [1 .. 16 -> Byte]
         /\ pls_is_uuid_v7(Payload(m, noise)) /\ is_uuid7(Payload(m, noise))
<1>1. \A k \in 1 .. 10 : noise[k] \in 0 .. 255
  BY NoiseAssumption DEF Byte
<1>2. /\ noise[1] \in 0 .. 255 /\ noise[3] \in 0 .. 255
      /\ 112 + (noise[1] % 16) \in 112 .. 127 /\ 128 + (noise[3] % 64) \in 128 .. 191
  BY <1>1
<1>3. \A k \in 1 .. 6 : to_bytes(m)[k] \in Byte
  <2> TAKE k \in 1 .. 6
  <2>1. 7 - k \in 1 .. 6
    OBVIOUS
  <2>2. Shifted(m)[7 - k] \in Nat
    BY <2>1, ShiftedStep
  <2> QED
    BY <2>2, Carry DEF to_bytes
<1>4. \A k \in 1 .. 16 : Payload(m, noise)[k] \in Byte
  <2> TAKE k \in 1 .. 16
  <2>1. CASE k <= 6
    <3>1. k \in 1 .. 6 /\ Payload(m, noise)[k] = to_bytes(m)[k]
      BY <2>1 DEF Payload
    <3> QED
      BY <1>3, <3>1
  <2>2. CASE k = 7
    BY <1>2, <2>2 DEF Payload, Byte
  <2>3. CASE k = 9
    BY <1>2, <2>3 DEF Payload, Byte
  <2>4. CASE k > 6 /\ k # 7 /\ k # 9
    <3>1. k - 6 \in 1 .. 10 /\ Payload(m, noise)[k] = noise[k - 6]
      BY <2>4 DEF Payload
    <3> QED
      BY <1>1, <3>1 DEF Byte
  <2> QED
    BY <2>1, <2>2, <2>3, <2>4
<1>5. Payload(m, noise) = [k \in 1 .. 16 |-> Payload(m, noise)[k]]
  BY DEF Payload
<1>6. /\ Payload(m, noise)[7] = 112 + (noise[1] % 16)
      /\ Payload(m, noise)[9] = 128 + (noise[3] % 64)
  BY DEF Payload
<1> QED
  BY <1>2, <1>4, <1>5, <1>6 DEF pls_is_uuid_v7, is_uuid7

LEMMA IssueKeeps ==
  ASSUME IInv, NEW moment \in Readings \cup Arguments, NEW noise \in Noise,
         Issue(moment, noise)
  PROVE  IInv'
<1> DEFINE row == [at |-> moment, id |-> Payload(moment, noise)]
<1>1. moment \in Nat /\ FitsSixBytes(moment)
  BY ReadingsAssumption, ArgumentsAssumption, MomentsAssumption DEF Issue
<1>2. row \in [at : Nat, id : [1 .. 16 -> Byte]]
  BY <1>1, PayloadIsAccepted
<1>3. issued' = Append(issued, row)
  BY DEF Issue
<1> HIDE DEF row
<1>4. issued' \in Seq([at : Nat, id : [1 .. 16 -> Byte]])
  BY <1>2, <1>3, AppendProperties DEF IInv
<1>5. Issued' = Issued \cup {row}
  <2>1. /\ DOMAIN issued = 1 .. Len(issued) /\ DOMAIN issued' = 1 .. Len(issued) + 1
        /\ Len(issued) \in Nat
    BY <1>2, <1>3, <1>4, AppendProperties DEF IInv
  <2>2. /\ \A i \in 1 .. Len(issued) : issued'[i] = issued[i]
        /\ issued'[Len(issued) + 1] = row
    BY <1>2, <1>3, AppendProperties DEF IInv
  <2>3. Issued' = {issued'[i] : i \in 1 .. Len(issued) + 1}
    BY <2>1 DEF Issued
  <2>4. Issued = {issued[i] : i \in 1 .. Len(issued)}
    BY <2>1 DEF Issued
  <2>5. 1 .. Len(issued) + 1 = (1 .. Len(issued)) \cup {Len(issued) + 1}
    BY <2>1
  <2> QED
    BY <2>2, <2>3, <2>4, <2>5
<1>6. Stamped'
  <2>1. row.at \in Nat /\ FitsSixBytes(row.at) /\ row.id = Payload(row.at, noise)
    BY <1>1 DEF row
  <2> QED
    BY <1>5, <2>1 DEF IInv, Stamped
<1> QED
  BY <1>4, <1>6 DEF IInv, Issue

\* Whatever a process has issued was built by uuid7 from a moment and random bytes.
THEOREM Inductive == IdSpec => []IInv
<1>1. IdInit => IInv
  BY DEF IdInit, IInv, Stamped, Issued
<1>2. IInv /\ [IdNext]_idVars => IInv'
  <2> SUFFICES ASSUME IInv, [IdNext]_idVars PROVE IInv'
    OBVIOUS
  <2>1. ASSUME NEW noise \in Noise, Issue(milliseconds, noise) PROVE IInv'
    BY <2>1, IssueKeeps DEF IInv
  <2>2. ASSUME NEW moment \in Arguments, NEW noise \in Noise, Issue(moment, noise) PROVE IInv'
    BY <2>2, IssueKeeps
  <2>3. ASSUME NEW moment \in Arguments, RefuseNegative(moment) PROVE IInv'
    BY <2>3 DEF IInv, Stamped, Issued, RefuseNegative
  <2>4. ASSUME NEW reading \in Readings, ClockMoves(reading) PROVE IInv'
    BY <2>4 DEF IInv, Stamped, Issued, ClockMoves
  <2>5. CASE UNCHANGED idVars
    BY <2>5 DEF IInv, Stamped, Issued, idVars
  <2> QED
    BY <2>1, <2>2, <2>3, <2>4, <2>5 DEF IdNext
<1> QED
  BY <1>1, <1>2, PTL DEF IdSpec

\* Every identifier is a key the database accepts, for all random bytes.
THEOREM IdsAreAccepted == IdSpec => []EveryIdIsAccepted
<1>1. IInv => EveryIdIsAccepted
  BY PayloadIsAccepted DEF IInv, Stamped, EveryIdIsAccepted
<1> QED
  BY <1>1, Inductive, PTL

\* Identifiers of different milliseconds sort like their moments, for all random
\* bytes and however the milliseconds was set in between.
THEOREM IdsFollowClock == IdSpec => []OrderFollowsClock
<1>1. IInv => OrderFollowsClock
  <2> SUFFICES ASSUME IInv, NEW r \in Issued, NEW s \in Issued, r.at < s.at
      PROVE Precedes(r.id, s.id)
    BY DEF OrderFollowsClock
  <2>1. PICK u \in Noise : r.at \in Nat /\ FitsSixBytes(r.at) /\ r.id = Payload(r.at, u)
    BY DEF IInv, Stamped
  <2>2. PICK v \in Noise : s.at \in Nat /\ FitsSixBytes(s.at) /\ s.id = Payload(s.at, v)
    BY DEF IInv, Stamped
  <2>3. PICK k \in 1 .. 6 :
            /\ to_bytes(r.at)[k] < to_bytes(s.at)[k]
            /\ \A j \in 1 .. k - 1 : to_bytes(r.at)[j] = to_bytes(s.at)[j]
    BY <2>1, <2>2, FirstDifference
  <2>4. \A j \in 1 .. 6 : r.id[j] = to_bytes(r.at)[j] /\ s.id[j] = to_bytes(s.at)[j]
    BY <2>1, <2>2 DEF Payload
  <2>5. k \in 1 .. 16 /\ \A j \in 1 .. k - 1 : j \in 1 .. 6
    OBVIOUS
  <2> QED
    BY <2>3, <2>4, <2>5 DEF Precedes
<1> QED
  BY <1>1, Inductive, PTL

=============================================================================
