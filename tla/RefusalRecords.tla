--------------------------- MODULE RefusalRecords ---------------------------
(***************************************************************************)
(* The limits on audit records of refusals a peer can provoke at will       *)
(* (internal/transport/record_limiter.go): a token bucket per category of   *)
(* refusal, and the gate that writes one record per episode of a full pool. *)
(* A refusal that gets no record of its own is counted, and the next record *)
(* of its bucket carries the count.                                         *)
(*                                                                          *)
(* refused and told are history: the refusals put to the bucket, and those  *)
(* the tape accounts for, by a record or in the count one carries.          *)
(***************************************************************************)
EXTENDS Naturals

CONSTANTS Burst,       \* tokens of a full bucket
          MaxRefusals  \* bound: refusals of one category

ASSUME RefusalAssumption == Burst \in Nat /\ MaxRefusals \in Nat

Buckets == [tokens: 0..Burst, suppressed: 0..MaxRefusals,
            refused: 0..MaxRefusals, told: 0..MaxRefusals]
Gates == [recorded: BOOLEAN, bucket: Buckets]

newRecordRateLimiter == [tokens |-> Burst, suppressed |-> 0, refused |-> 0, told |-> 0]

suppress(b) == [b EXCEPT !.suppressed = @ + 1, !.refused = @ + 1]

admit(b) ==
  IF b.tokens = 0 THEN suppress(b)
  ELSE [b EXCEPT !.tokens = @ - 1, !.refused = @ + 1,
                 !.told = @ + 1 + b.suppressed, !.suppressed = 0]

\* Time passes and the bucket fills up again.
refill(b) == [b EXCEPT !.tokens = Burst]

newSaturationGate == [recorded |-> FALSE, bucket |-> newRecordRateLimiter]

\* One record per episode: what the open episode has recorded already is counted.
saturated(g) ==
  LET b == IF g.recorded THEN suppress(g.bucket) ELSE admit(g.bucket)
  IN  [recorded |-> g.recorded \/ g.bucket.tokens > 0, bucket |-> b]

\* A slot was free: the episode is over.
clear(g) == [g EXCEPT !.recorded = FALSE]

\* Nothing a bucket was told of is lost: it is on the tape or waits to be carried there.
Accounted(b) == b.refused = b.told + b.suppressed
=============================================================================
