------------------------------- MODULE UuidV7 -------------------------------
(***************************************************************************)
(* Identifiers (pls.ids): uuid7 writes a millisecond clock into the first  *)
(* six bytes and ten random bytes after it, and stamps the version and the *)
(* variant over two of the random ones.  The database accepts a key when   *)
(* pls_is_uuid_v7 holds of it (migration 0001) and orders keys byte by     *)
(* byte.  A process issues identifiers one after another; its clock may    *)
(* stand still between two of them and may be set back.                    *)
(***************************************************************************)
EXTENDS Integers, Sequences

CONSTANTS
    Readings,    \* milliseconds the clock may show
    Arguments,   \* values given as timestamp_ms
    Noise,       \* outcomes of os.urandom(10)
    MaxIds       \* bound on the identifiers issued

Byte == 0 .. 255

ASSUME ReadingsAssumption == Readings \subseteq Nat
ASSUME ArgumentsAssumption == Arguments \subseteq Int
ASSUME NoiseAssumption == Noise \subseteq [1 .. 10 -> Byte]

VARIABLES
    milliseconds,   \* what time.time_ns() shows, in milliseconds
    issued,         \* the identifiers issued, in order, with the moment they carry
    outcome         \* how the last call ended

idVars == <<milliseconds, issued, outcome>>

Outcomes == {"none", "uuid", "ValueError"}

IdInit == milliseconds \in Readings /\ issued = <<>> /\ outcome = "none"

-----------------------------------------------------------------------------
\* The moment without its last k bytes, k = 0 .. 6.
Shifted(moment) ==
    LET q1 == moment \div 256
        q2 == q1 \div 256
        q3 == q2 \div 256
        q4 == q3 \div 256
        q5 == q4 \div 256
    IN  <<moment, q1, q2, q3, q4, q5, q5 \div 256>>

\* moment.to_bytes(6, "big").  It fails for moments of more than six bytes, which
\* are those after the year 10889 and are left out.
FitsSixBytes(moment) == Shifted(moment)[7] = 0

ASSUME MomentsAssumption ==
    \A moment \in Readings \cup Arguments : moment >= 0 => FitsSixBytes(moment)

\* Mutant of to_bytes: the low byte comes first.
LittleEndian(moment) == [k \in 1 .. 6 |-> Shifted(moment)[k] % 256]

\* The six bytes, the highest first.
to_bytes(moment) == [k \in 1 .. 6 |-> Shifted(moment)[7 - k] % 256]

\* Mutant of Payload: the variant is written into the byte after the version.
VariantOneByteEarly(moment, noise) ==
    [k \in 1 .. 16 |->
        CASE k <= 6 -> to_bytes(moment)[k]
          [] k = 7 -> 112 + (noise[1] % 16)
          [] k = 8 -> 128 + (noise[2] % 64)
          [] OTHER -> noise[k - 6]]

\* payload[6] = payload[6] & 0x0F | 0x70 and payload[8] = payload[8] & 0x3F | 0x80;
\* bytes are counted from 1 here.
Payload(moment, noise) ==
    [k \in 1 .. 16 |->
        CASE k <= 6 -> to_bytes(moment)[k]
          [] k = 7 -> 112 + (noise[1] % 16)
          [] k = 9 -> 128 + (noise[3] % 64)
          [] OTHER -> noise[k - 6]]

\* The predicate of the database, and the one of Python that mirrors it.
pls_is_uuid_v7(id) == id[7] \div 16 = 7 /\ id[9] \div 64 = 2
is_uuid7(id) == id[7] \div 16 = 7 /\ id[9] \div 64 = 2

\* The order of the type uuid.
Precedes(a, b) ==
    \E k \in 1 .. 16 : a[k] < b[k] /\ \A j \in 1 .. k - 1 : a[j] = b[j]

-----------------------------------------------------------------------------
Issue(moment, noise) ==
    /\ Len(issued) < MaxIds
    /\ moment >= 0
    /\ issued' = Append(issued, [at |-> moment, id |-> Payload(moment, noise)])
    /\ outcome' = "uuid"
    /\ UNCHANGED milliseconds

RefuseNegative(moment) ==
    /\ moment < 0
    /\ outcome' = "ValueError"
    /\ UNCHANGED <<milliseconds, issued>>

\* The clock of the host, external: it may jump either way.
ClockMoves(reading) == milliseconds' = reading /\ UNCHANGED <<issued, outcome>>

IdNext ==
    \/ \E noise \in Noise : Issue(milliseconds, noise)
    \/ \E moment \in Arguments, noise \in Noise : Issue(moment, noise)
    \/ \E moment \in Arguments : RefuseNegative(moment)
    \/ \E reading \in Readings : ClockMoves(reading)

IdSpec == IdInit /\ [][IdNext]_idVars

-----------------------------------------------------------------------------
IdTypeOK ==
    /\ milliseconds \in Readings
    /\ issued \in Seq([at : Nat, id : [1 .. 16 -> Byte]])
    /\ outcome \in Outcomes

Issued == {issued[i] : i \in DOMAIN issued}

\* Every identifier is a key the database accepts, and Python's predicate
\* agrees, whatever the random bytes are.
EveryIdIsAccepted == \A r \in Issued : pls_is_uuid_v7(r.id) /\ is_uuid7(r.id)

\* Identifiers of different milliseconds are ordered like their moments,
\* whatever the random bytes are and in whichever order they were issued.
OrderFollowsClock ==
    \A r, s \in Issued : r.at < s.at => Precedes(r.id, s.id)

=============================================================================
