----------------------------- MODULE Identifiers ------------------------------
(***************************************************************************)
(* Manager.newID: identifiers in the UUIDv7 layout.  An identifier is      *)
(* compared byte by byte, so by its 48-bit timestamp, then by its 12-bit   *)
(* sequence; the version and variant bits are constants, and the random    *)
(* bits come after both.  The clock is the host's and may stop, jump or    *)
(* step back between two calls, and reading randomness may fail after the  *)
(* generator has moved.  The generator's mutex makes a call one step.      *)
(*                                                                         *)
(* The other modules take identifiers as fresh, and AuditTrail as          *)
(* increasing; this one shows why they may.                                *)
(***************************************************************************)
EXTENDS Integers, TLAPS

VARIABLES
    idUnixMilli, idSequence,    \* Manager's fields
    issued                      \* history: the identifiers returned

vars == <<idUnixMilli, idSequence, issued>>

MaxSequence == 4095
Timestamps == 281474976710656   \* 2^48: what six bytes keep of idUnixMilli

\* The bytes a call encodes.
Encoded(milli, sequence) == [milli |-> milli % Timestamps,
                             sequence |-> sequence]

Precedes(a, b) == \/ a.milli < b.milli
                  \/ a.milli = b.milli /\ a.sequence < b.sequence

Init == idUnixMilli = 0 /\ idSequence = 0 /\ issued = {}

\* The generator moves with the clock when that is ahead, and by itself when
\* it is not.
Moves(now) ==
    \/ now > idUnixMilli /\ idUnixMilli' = now /\ idSequence' = 0
    \/ /\ now <= idUnixMilli /\ idSequence = MaxSequence
       /\ idUnixMilli' = idUnixMilli + 1 /\ idSequence' = 0
    \/ /\ now <= idUnixMilli /\ idSequence # MaxSequence
       /\ idUnixMilli' = idUnixMilli /\ idSequence' = idSequence + 1

newID(now) ==
    /\ Moves(now)
    /\ \/ issued' = issued \cup {Encoded(idUnixMilli', idSequence')}
       \/ issued' = issued      \* randomBytes fails

Next == \E now \in Int : newID(now)

Spec == Init /\ [][Next]_vars

-----------------------------------------------------------------------------

\* As long as the generator is within the timestamps the layout can hold,
\* the identifier a call returns is greater than every one before it: so no
\* two calls return the same, whatever the clock does.
Increases ==
    idUnixMilli' < Timestamps =>
      \A id \in issued' \ issued : \A old \in issued : Precedes(old, id)

\* The generator is at or past everything it has returned.
Ahead ==
    /\ idUnixMilli \in Nat /\ idSequence \in 0..MaxSequence
    /\ idUnixMilli < Timestamps =>
         \A id \in issued :
           /\ id.milli \in Nat /\ id.sequence \in 0..MaxSequence
           /\ \/ id.milli < idUnixMilli
              \/ id.milli = idUnixMilli /\ id.sequence <= idSequence

LEMMA Sizes == MaxSequence \in Nat \ {0} /\ Timestamps \in Nat \ {0}
BY SMT DEF MaxSequence, Timestamps

\* A call leaves the generator at or past the identifiers returned so far,
\* and strictly past the earlier ones.
LEMMA Advances ==
    ASSUME Ahead, [Next]_vars
    PROVE  Ahead' /\ (Increases \/ UNCHANGED vars)
<1>1. CASE UNCHANGED vars
  BY <1>1 DEF Ahead, vars
<1>2. ASSUME NEW now \in Int, newID(now)
      PROVE  Ahead' /\ Increases
  <2>1. /\ idUnixMilli' \in Nat /\ idSequence' \in 0..MaxSequence
        /\ idUnixMilli' >= idUnixMilli
        /\ \/ idUnixMilli < idUnixMilli'
           \/ idUnixMilli = idUnixMilli' /\ idSequence < idSequence'
    BY <1>2, Sizes DEF newID, Moves, Ahead
  <2>2. ASSUME idUnixMilli' < Timestamps
        PROVE  Encoded(idUnixMilli', idSequence')
                 = [milli |-> idUnixMilli', sequence |-> idSequence']
    BY <2>1, <2>2, Sizes DEF Encoded
  <2>3. ASSUME idUnixMilli' < Timestamps, NEW id \in issued
        PROVE  /\ id.milli \in Nat /\ id.sequence \in 0..MaxSequence
               /\ \/ id.milli < idUnixMilli'
                  \/ id.milli = idUnixMilli' /\ id.sequence < idSequence'
    BY <2>1, <2>3, Sizes DEF Ahead
  <2>4. issued' \subseteq issued \cup {Encoded(idUnixMilli', idSequence')}
    BY <1>2 DEF newID
  <2>5. Ahead'
    BY <2>1, <2>2, <2>3, <2>4, Sizes DEF Ahead
  <2>6. Increases
    BY <2>2, <2>3, <2>4 DEF Increases, Precedes
  <2> QED BY <2>5, <2>6
<1> QED BY <1>1, <1>2 DEF Next

\* newID's identifiers increase within a process.
THEOREM IdentifiersIncrease == Spec => [][Increases]_vars
<1>1. Init => Ahead
  BY Sizes DEF Init, Ahead
<1>2. Ahead /\ [Next]_vars => Ahead' /\ [Increases]_vars
  BY Advances
<1> QED BY <1>1, <1>2, PTL DEF Spec
=============================================================================
