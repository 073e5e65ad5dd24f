--------------------------- MODULE ResumableUpload ---------------------------
(***************************************************************************)
(* What the upload authority promises about one original, whatever fails:  *)
(* the provider's upload is completed only with every chunk, the durable   *)
(* record confirms a chunk only when the provider has it and does not give *)
(* a confirmed chunk up, and it is dropped only after the completion.      *)
(* IngestSession implements it when one session runs at a time, and the    *)
(* pool of ParallelTransfer from an upload that is already open.           *)
(***************************************************************************)
CONSTANT Chunk  \* the chunks of the original

VARIABLES
    phase,      \* of the provider's upload: none, open, completed or aborted
    delivered,  \* the chunks the provider has stored
    confirmed,  \* the chunks the durable record holds
    dropped     \* the durable record was deleted

vars == <<phase, delivered, confirmed, dropped>>

Init ==
    /\ phase \in {"none", "open"}
    /\ delivered = {}
    /\ confirmed = {}
    /\ dropped = FALSE

Open ==
    /\ phase = "none"
    /\ phase' = "open"
    /\ UNCHANGED <<delivered, confirmed, dropped>>

Deliver ==
    /\ phase = "open"
    /\ \E c \in Chunk : delivered' = delivered \cup {c}
    /\ UNCHANGED <<phase, confirmed, dropped>>

Confirm ==
    /\ ~dropped
    /\ confirmed \subseteq confirmed' /\ confirmed' \subseteq delivered
    /\ UNCHANGED <<phase, delivered, dropped>>

Complete ==
    /\ phase = "open" /\ delivered = Chunk
    /\ phase' = "completed"
    /\ UNCHANGED <<delivered, confirmed, dropped>>

Abort ==
    /\ phase = "open"
    /\ phase' = "aborted"
    /\ UNCHANGED <<delivered, confirmed, dropped>>

Drop ==
    /\ phase = "completed"
    /\ confirmed' = {}
    /\ dropped' = TRUE
    /\ UNCHANGED <<phase, delivered>>

Next == Open \/ Deliver \/ Confirm \/ Complete \/ Abort \/ Drop

Spec == Init /\ [][Next]_vars
==============================================================================
