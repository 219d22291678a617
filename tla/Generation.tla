----------------------------- MODULE Generation -----------------------------
(***************************************************************************)
(* What a client of the engine is promised, with no word about memory: a   *)
(* request's text starts with its prompt and grows one generated token at  *)
(* a time while the request is active, and never again once it is over.    *)
(* PagedKV implements this.                                                *)
(***************************************************************************)
EXTENDS Sequences

CONSTANTS Requests, Tokens, Prompts

VARIABLES
    text,    \* prompt and generated tokens of each request
    phase    \* "idle", "active" or "over"

vars == <<text, phase>>

ActiveRequests == {r \in Requests : phase[r] = "active"}

Submit(r, prompt) ==
    /\ phase[r] = "idle"
    /\ text' = [text EXCEPT ![r] = prompt]
    /\ phase' = [phase EXCEPT ![r] = "active"]

Cancel(r) ==
    /\ phase[r] = "active"
    /\ phase' = [phase EXCEPT ![r] = "over"]
    /\ UNCHANGED text

Close(r) ==
    /\ phase[r] # "idle"
    /\ text' = [text EXCEPT ![r] = <<>>]
    /\ phase' = [phase EXCEPT ![r] = "idle"]

\* One batch of outputs: a token for each of some active requests, of which
\* some are over with it.
Deliver(batch, tok, stop) ==
    /\ batch \subseteq ActiveRequests
    /\ text' = [r \in Requests |-> IF r \in batch THEN Append(text[r], tok[r]) ELSE text[r]]
    /\ phase' = [r \in Requests |-> IF r \in batch /\ r \in stop THEN "over" ELSE phase[r]]

Init == text = [r \in Requests |-> <<>>] /\ phase = [r \in Requests |-> "idle"]

Next ==
    \/ \E r \in Requests : \/ \E prompt \in Prompts : Submit(r, prompt)
                           \/ Cancel(r)
                           \/ Close(r)
    \/ \E batch \in SUBSET ActiveRequests : \E stop \in SUBSET batch :
         \E tok \in [batch -> Tokens] : Deliver(batch, tok, stop)

Spec == Init /\ [][Next]_vars

\* Every request the client does not abandon is answered to its end.
EveryRequestEnds == \A r \in Requests : phase[r] = "active" ~> phase[r] # "active"
=============================================================================
