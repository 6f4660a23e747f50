----------------------------- MODULE Difficulty -----------------------------
(***************************************************************************)
(* The proof-of-work target (consensus/src/barossa.rs): what a miner puts  *)
(* into a header, by work_required, and what verify_header accepts from    *)
(* others.  The state is one branch of headers from genesis up, which      *)
(* grows by mined and by imported headers and is cut by a rollback.  A     *)
(* target is the number its compact form stands for; Compact is what       *)
(* writing a number in that form and reading it back does to it (module    *)
(* UintCodec).  The header a retarget refers to comes from the index by    *)
(* level, which may hold one of another branch: its time is any time.      *)
(***************************************************************************)
EXTENDS Integers, Sequences, FiniteSets

CONSTANTS
  Networks,                 \* Mainnet, Testnet and Alphanet
  MaxDifficulty,            \* Network::max_difficulty
  Limit,                    \* 2^256
  Compact,                  \* Compact::from_u256, then to_u256
  TARGET_SPACING_SECONDS,
  RETARGETING_INTERVAL,     \* 10080 blocks
  RETARGETING_FACTOR,
  BLOCK_MAX_FUTURE,
  MaxTime,                  \* bound on the clock
  MaxLevel,                 \* bound on the branch
  MaxImports                \* bound on its headers of other nodes

TARGET_TIMESPAN_SECONDS == RETARGETING_INTERVAL * TARGET_SPACING_SECONDS
DOUBLE_SPACING_SECONDS  == 2 * TARGET_SPACING_SECONDS
MIN_TIMESPAN == TARGET_TIMESPAN_SECONDS \div RETARGETING_FACTOR
MAX_TIMESPAN == TARGET_TIMESPAN_SECONDS * RETARGETING_FACTOR

Target == 0 .. Limit - 1

(* The compact form rounds down and keeps the order of the targets. *)
ASSUME CompactAssumption ==
  /\ Limit \in Nat \ {0}
  /\ Compact \in [Target -> Target]
  /\ \A t \in Target : Compact[t] <= t /\ Compact[Compact[t]] = Compact[t]
  /\ \A s, t \in Target : s <= t => Compact[s] <= Compact[t]

ASSUME ConstantsAssumption ==
  /\ TARGET_SPACING_SECONDS \in Nat \ {0}
  /\ RETARGETING_INTERVAL \in Nat \ {0, 1}
  /\ RETARGETING_FACTOR \in Nat \ {0}
  /\ TARGET_TIMESPAN_SECONDS % RETARGETING_FACTOR = 0
  /\ BLOCK_MAX_FUTURE \in Nat
  /\ MaxTime \in Nat /\ MaxLevel \in Nat /\ MaxImports \in Nat

(* The largest target times the longest timespan fits 256 bits. *)
ASSUME MaximumAssumption ==
  /\ MaxDifficulty \in [Networks -> Target]
  /\ \A n \in Networks : Compact[MaxDifficulty[n]] * MAX_TIMESPAN < Limit

VARIABLES
  network,      \* of the node, fixed
  now,          \* chrono::Utc::now
  chain         \* the headers of the branch: chain[l + 1] is at level l

vars == <<network, now, chain>>

Header == [time : Nat, bits : Target, mined : BOOLEAN]

max_difficulty_compact == Compact[MaxDifficulty[network]]

Level   == Len(chain)              \* of the header to come
Parent  == chain[Level]            \* its parent, at level Level - 1

is_retarget_height(height) == height % RETARGETING_INTERVAL = 0

range_constrain(value, min, max) == IF value < min THEN min ELSE IF value > max THEN max ELSE value

(* The timespan is not constrained. *)
retarget_timespan_Raw(retarget_timestamp, last_timestamp) ==
  IF last_timestamp < retarget_timestamp THEN 0 ELSE last_timestamp - retarget_timestamp
(* The difference of two unsigned times, taken in signed space. *)
retarget_timespan(retarget_timestamp, last_timestamp) ==
  range_constrain(last_timestamp - retarget_timestamp, MIN_TIMESPAN, MAX_TIMESPAN)

(* The product, which panics from Limit on. *)
RetargetProduct(retarget_timestamp) == Parent.bits * retarget_timespan(retarget_timestamp, Parent.time)

(* The result is not capped at the maximum. *)
work_required_retarget_NoMaximum(retarget_timestamp) ==
  Compact[RetargetProduct(retarget_timestamp) \div TARGET_TIMESPAN_SECONDS]
work_required_retarget(retarget_timestamp) ==
  LET retarget == RetargetProduct(retarget_timestamp) \div TARGET_TIMESPAN_SECONDS
  IN IF retarget > max_difficulty_compact THEN max_difficulty_compact ELSE Compact[retarget]

(* The headers the walk of work_required_testnet collects, by their index:   *)
(* the parent is 0.  It stops at the first that has a target of its own.     *)
Back(i)  == chain[Level - i]
Walked   == 0 .. (IF RETARGETING_INTERVAL < Level THEN RETARGETING_INTERVAL ELSE Level) - 1
(* The walk does not stop where the period began. *)
Stops_AnyPeriod(height) == {i \in Walked : Back(i).bits # max_difficulty_compact}
Stops(height) == {i \in Walked : Back(i).bits # max_difficulty_compact \/ is_retarget_height(height - i - 1)}
First(S) == CHOOSE i \in S : \A j \in S : i <= j

work_required_testnet(time, height) ==
  IF time > Parent.time + DOUBLE_SPACING_SECONDS \/ Stops(height) = {} THEN max_difficulty_compact
  ELSE Back(First(Stops(height))).bits

work_required(time, height, retarget_timestamp) ==
  IF height = 0 THEN max_difficulty_compact
  ELSE IF is_retarget_height(height) THEN work_required_retarget(retarget_timestamp)
  ELSE IF network = "Testnet" THEN work_required_testnet(time, height)
  ELSE Parent.bits

(* The target of the header to come is asked for at the height after its    *)
(* level.                                                                   *)
Prepared(time, retarget_timestamp) == work_required(time, Level + 1, retarget_timestamp)

(* Of a header whose hash is below its target, as every target above 0 has. *)
is_valid_proof_of_work(bits) == bits <= max_difficulty_compact

-----------------------------------------------------------------------------

Init ==
  /\ network \in Networks
  /\ now = 0
  /\ chain = <<[time |-> 0, bits |-> max_difficulty_compact, mined |-> TRUE]>>

(* prepare_header, then a nonce that meets the target. *)
Mine(retarget_timestamp) ==
  /\ Level <= MaxLevel
  /\ chain' = Append(chain, [time |-> now, bits |-> Prepared(now, retarget_timestamp), mined |-> TRUE])
  /\ UNCHANGED <<network, now>>

Imported == Cardinality({k \in DOMAIN chain : ~chain[k].mined})

(* Any target is taken. *)
Import_AnyTarget(time, bits) ==
  /\ Level <= MaxLevel /\ Imported < MaxImports
  /\ time < now + BLOCK_MAX_FUTURE
  /\ chain' = Append(chain, [time |-> time, bits |-> Compact[bits], mined |-> FALSE])
  /\ UNCHANGED <<network, now>>
(* verify_header of a header of another node, which need not have the       *)
(* target work_required asks for.                                           *)
Import(time, bits) ==
  /\ Level <= MaxLevel /\ Imported < MaxImports
  /\ time < now + BLOCK_MAX_FUTURE
  /\ is_valid_proof_of_work(Compact[bits])
  /\ chain' = Append(chain, [time |-> time, bits |-> Compact[bits], mined |-> FALSE])
  /\ UNCHANGED <<network, now>>

(* put_chain goes back to a common ancestor. *)
Rollback(level) ==
  /\ chain' = SubSeq(chain, 1, level + 1)
  /\ UNCHANGED <<network, now>>

Tick(time) == now' = time /\ UNCHANGED <<network, chain>>

Next ==
  \/ \E retarget_timestamp \in 0 .. MaxTime : Mine(retarget_timestamp)
  \/ \E time \in 0 .. MaxTime, bits \in Target : Import(time, bits)
  \/ \E level \in 0 .. Level - 2 : Rollback(level)
  \/ \E time \in now .. MaxTime : Tick(time)

Spec == Init /\ [][Next]_vars

-----------------------------------------------------------------------------

TypeOK ==
  /\ network \in Networks
  /\ now \in 0 .. MaxTime
  /\ chain \in Seq(Header) /\ Len(chain) >= 1

(* Whatever branch a miner is on, of headers that verify_header accepted,   *)
(* and whatever header the index by level names, work_required does not     *)
(* overflow and the target it asks for is one verify_header accepts: a node *)
(* never works on a block the others must refuse.                           *)
PreparedIsAccepted ==
  \A time, retarget_timestamp \in 0 .. MaxTime :
    /\ is_retarget_height(Level + 1) => RetargetProduct(retarget_timestamp) < Limit
    /\ is_valid_proof_of_work(Prepared(time, retarget_timestamp))

(* Between two retargets, headers that were mined by the rule on top of one *)
(* another have one target, the one the period began with.  On Testnet a    *)
(* block that came late may have the maximum, and does not make the ones    *)
(* after it easier; a period that began with the maximum keeps it.          *)
MinedAfter(i, j)  == \A k \in i + 1 .. j : chain[k].mined /\ ~is_retarget_height(k)
LateBlock(i) == chain[i].bits = max_difficulty_compact /\ ~is_retarget_height(i)
PeriodHasOneTarget ==
  \A i, j \in DOMAIN chain :
    i < j /\ MinedAfter(i, j) =>
      \/ chain[i].bits = chain[j].bits
      \/ network = "Testnet" /\ (LateBlock(i) \/ chain[j].bits = max_difficulty_compact)

(* A retarget moves the target by the factor 4 at most, whatever the times  *)
(* of the headers say, but for the rounding of the compact form.            *)
RetargetIsBounded ==
  \A k \in DOMAIN chain :
    k > 1 /\ chain[k].mined /\ is_retarget_height(k) =>
      /\ chain[k].bits <= RETARGETING_FACTOR * chain[k - 1].bits
      /\ chain[k].bits >= Compact[chain[k - 1].bits \div RETARGETING_FACTOR]

=============================================================================
