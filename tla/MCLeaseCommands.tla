-------------------------- MODULE MCLeaseCommands --------------------------
(* Small instances of LeaseCommands. *)
EXTENDS LeaseCommands, TLC

CONSTANTS a, b, k1, k2, t1, t2, s1, p1, p2

Symmetry == Permutations(Procs)

OpenTodo == [status |-> "open", claimed_by |-> None, excluded_agents |-> {}, ready |-> TRUE]

HeadWith(m) == [handoff_mode |-> m, todos |-> [t \in Todos |-> OpenTodo],
                leases |-> [t \in Todos |-> NoLease]]
HardHead == {HeadWith("hard_lease")}
AnyHead == {HeadWith("hard_lease"), HeadWith("soft_claim")}

(* A claim by one agent, and a closed Todo. *)
LeaseFacts == {[OpenTodo EXCEPT !.claimed_by = a], [OpenTodo EXCEPT !.status = "done"]}
ScopeFacts == {[OpenTodo EXCEPT !.ready = FALSE], [OpenTodo EXCEPT !.claimed_by = a]}

Base == [kind |-> "acquire", todo_id |-> t1, owner |-> a, idempotency_key |-> k1,
         expected_version |-> None, ttl_seconds |-> 1, write_scopes |-> {s1},
         new_owner |-> None, new_idempotency_key |-> None,
         transfer_claim |-> FALSE, requested_mode |-> None]

Acquire(t, o, k) == [Base EXCEPT !.todo_id = t, !.owner = o, !.idempotency_key = k]

Maintain(kind, o, k, v) ==
  [Base EXCEPT !.kind = kind, !.owner = o, !.idempotency_key = k,
     !.expected_version = v, !.write_scopes = {},
     !.ttl_seconds = IF kind = "release" THEN 0 ELSE 1]

Transfer(o, k, v, o2, k3, move) ==
  [Maintain("transfer", o, k, v) EXCEPT !.new_owner = o2, !.new_idempotency_key = k3,
                                        !.transfer_claim = move]

SetMode(k, m) == [Base EXCEPT !.kind = "set_mode", !.todo_id = None, !.owner = None,
                    !.idempotency_key = k, !.ttl_seconds = 0, !.write_scopes = {},
                    !.requested_mode = m]

(* One Todo, two agents: acquire, retry, renew, transfer and release. *)
LeaseRequests ==
  {Acquire(t1, a, k1), Acquire(t1, b, k2), Maintain("renew", a, k1, 1),
   Maintain("release", a, k1, 1), Transfer(a, k1, 1, b, k2, FALSE),
   Transfer(a, k1, 1, b, k2, TRUE)}

(* Two Todos with a shared scope, and the mode switch. *)
ScopeRequests ==
  {Acquire(t1, a, k1), Acquire(t2, b, k1), Maintain("renew", a, k1, 1),
   SetMode(k1, "soft_claim"), SetMode(k2, "hard_lease"), SetMode(k1, "legacy")}
=============================================================================
