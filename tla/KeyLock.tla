------------------------------- MODULE KeyLock -------------------------------
(***************************************************************************)
(* What mysql/utils.go promises of a KeyedMutex: callers that pass the     *)
(* same key exclude each other, callers that pass different keys do not.   *)
(* A caller is one goroutine: terraform starts one per resource operation. *)
(***************************************************************************)
CONSTANTS Caller, Key

VARIABLES status,  \* status[c]: where caller c stands
          wanted   \* wanted[c]: the key of its current or latest Lock call

lvars == <<status, wanted>>

Status == {"idle", "waiting", "holding"}

Init == /\ status = [c \in Caller |-> "idle"]
        /\ wanted \in [Caller -> Key]

Request(c) == /\ status[c] = "idle"
              /\ \E k \in Key : wanted' = [wanted EXCEPT ![c] = k]
              /\ status' = [status EXCEPT ![c] = "waiting"]

Enter(c) == /\ status[c] = "waiting"
            /\ \A d \in Caller : status[d] = "holding" => wanted[d] # wanted[c]
            /\ status' = [status EXCEPT ![c] = "holding"]
            /\ UNCHANGED wanted

Leave(c) == /\ status[c] = "holding"
            /\ status' = [status EXCEPT ![c] = "idle"]
            /\ UNCHANGED wanted

Next == \E c \in Caller : Request(c) \/ Enter(c) \/ Leave(c)

Safe == Init /\ [][Next]_lvars

Spec == Safe /\ \A c \in Caller : SF_lvars(Enter(c)) /\ WF_lvars(Leave(c))
==============================================================================
