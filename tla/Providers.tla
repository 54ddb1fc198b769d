------------------------------ MODULE Providers ------------------------------
(***************************************************************************)
(* The registry that binds each capability to the provider that serves it, *)
(* as the import of orchestrator/capabilities.py leaves it.                *)
(***************************************************************************)
EXTENDS ExecutionPlan, FiniteSets

CONSTANT
  Offered   \* the providers registered, in order

\* The identity of a provider and what it offers.
Provider == [name : STRING \ {""}, model : STRING \ {""}, capabilities : SUBSET Capabilities]

NoProviders == [providers |-> {}, bound |-> [c \in {} |-> ""], refused |-> FALSE]

\* Another provider of that name, or of one of its capabilities, is there.
Conflicts(r, p) ==
  \/ \E q \in r.providers : q.name = p.name /\ q # p
  \/ /\ p \notin r.providers
     /\ \E c \in p.capabilities \cap DOMAIN r.bound : r.bound[c] # p.name

\* register_provider: all of a provider's bindings or none; the same one
\* again changes nothing.
Register(r, p) ==
  IF Conflicts(r, p) THEN [r EXCEPT !.refused = TRUE]
  ELSE [r EXCEPT !.providers = @ \cup {p},
                 !.bound = [c \in DOMAIN @ \cup p.capabilities |->
                              IF c \in p.capabilities THEN p.name ELSE @[c]]]

\* register_default_providers.
Registry ==
  LET after[n \in 0 .. Len(Offered)] ==
        IF n = 0 THEN NoProviders ELSE Register(after[n - 1], Offered[n])
  IN after[Len(Offered)]

\* The import raises unless every registration succeeds.
ASSUME OfferedAssumption ==
  /\ \A n \in DOMAIN Offered : Offered[n] \in Provider
  /\ ~Registry.refused

\* resolve_provider.
Registered == DOMAIN Registry.bound
ModelOf(c) ==
  (CHOOSE p \in Registry.providers : p.name = Registry.bound[c]).model
=============================================================================
