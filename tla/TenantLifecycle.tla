-------------------------- MODULE TenantLifecycle --------------------------
(***************************************************************************)
(* What an admin who waits for every command to end may rely on of the     *)
(* life of a tenant, whatever fails: it is created once, it is placed      *)
(* once, only a creation can fail, and nothing follows its deletion.       *)
(***************************************************************************)
CONSTANT Tenants

VARIABLE life

Live == {"pending", "provisioning", "active", "suspended", "failed"}

Init == life = [t \in Tenants |-> "absent"]

Becomes(t, s) == life'[t] = s

Create(t) == life[t] = "absent" /\ Becomes(t, "pending")

Place(t) == life[t] = "pending" /\ Becomes(t, "provisioning")

FailToCreate(t) == life[t] \in {"pending", "provisioning"} /\ Becomes(t, "failed")

Activate(t) == life[t] \in Live /\ Becomes(t, "active")

Suspend(t) == life[t] \in Live /\ Becomes(t, "suspended")

Delete(t) == life[t] \in Live /\ Becomes(t, "deleted")

Step(t) ==
    Create(t) \/ Place(t) \/ FailToCreate(t) \/ Activate(t) \/ Suspend(t) \/ Delete(t)

\* Every tenant lives its own life: a process that dies ends several creations at once.
Next ==
    /\ life' \in [Tenants -> Live \cup {"absent", "deleted"}]
    /\ \A t \in Tenants : life'[t] = life[t] \/ Step(t)

Spec == Init /\ [][Next]_life
=============================================================================
