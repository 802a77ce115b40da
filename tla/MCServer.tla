------------------------------ MODULE MCServer ------------------------------
(* Instances of Server for TLC: what the clients ask for. *)
EXTENDS ServerProps, TLC

CONSTANTS r1, r2

Req(prompts, id_slot, stream) == [prompts |-> prompts, id_slot |-> id_slot, stream |-> stream]

\* A request of two prompts and a stream, on one slot: one has to be deferred.
OneSlot == (r1 :> Req(<<2, 1>>, -1, FALSE)) @@ (r2 :> Req(<<1>>, -1, TRUE))

\* Two slots: two tasks for the same one, the second without a prompt, and one
\* for any, so that two prompts may share a batch that is too small for both.
TwoSlots == (r1 :> Req(<<1, 0>>, 0, FALSE)) @@ (r2 :> Req(<<2>>, -1, TRUE))

\* Two requests on one slot.
OnePlain == (r1 :> Req(<<1>>, -1, FALSE)) @@ (r2 :> Req(<<1>>, -1, FALSE))

\* One request: an empty prompt, and a stream.
OneEmpty == r1 :> Req(<<0>>, -1, FALSE)
AStream  == r1 :> Req(<<1>>, -1, TRUE)
=============================================================================
