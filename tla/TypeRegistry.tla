----------------------------- MODULE TypeRegistry -----------------------------
(***************************************************************************)
(* The registry of contribution types (amos-bounty, registry.rs): types    *)
(* are added and changed until they are frozen, one by one or all at once, *)
(* by the oracle or, after the deadline, by anybody.  The deadline may be  *)
(* extended a few times, also when it has passed and nobody has frozen     *)
(* the registry yet.  Payouts do not read the registry: they use the       *)
(* multipliers compiled into the program.                                  *)
(***************************************************************************)
EXTENDS Chain

CONSTANTS
  FirstTypes,     \* how many types the registry starts with
  MaxTypes,       \* MAX_CONTRIBUTION_TYPES
  Multipliers,    \* multipliers the oracle may choose
  FreezeAfter,    \* REGISTRY_AUTO_FREEZE_SECONDS
  MaxExtensions,  \* REGISTRY_MAX_EXTENSIONS
  Extension       \* REGISTRY_EXTENSION_DURATION_SECONDS

ASSUME RegistryAssumption ==
  /\ FirstTypes \in Nat /\ MaxTypes \in Nat /\ FirstTypes <= MaxTypes
  /\ FreezeAfter \in Nat /\ MaxExtensions \in Nat /\ Extension \in Nat

VARIABLE registry   \* ContributionTypeRegistry, None until it is initialized

registryVars == <<now, registry>>

Categories == {"Technical", "Growth"}

Entry == [multiplier : Multipliers, category : Categories, frozen : BOOLEAN]

Registry == [ entries    : UNION {[1 .. n -> Entry] : n \in 0 .. MaxTypes},
              frozen     : BOOLEAN,        \* registry_frozen
              deadline   : Nat,            \* freeze_deadline
              extensions : 0 .. MaxExtensions ]

RegistryTypeOK == now \in Times /\ registry \in Registry \cup {None}

RegistryInit == now = 0 /\ registry = None

NewEntry(multiplier, category) ==
  [multiplier |-> multiplier, category |-> category, frozen |-> FALSE]

initialize_registry ==
  /\ registry = None
  /\ \E multiplier \in Multipliers :
       registry' = [ entries |-> [i \in 1 .. FirstTypes |-> NewEntry(multiplier, "Technical")],
                     frozen |-> FALSE, deadline |-> now + FreezeAfter, extensions |-> 0 ]
  /\ UNCHANGED now

Changeable == registry # None /\ ~registry.frozen
Types == DOMAIN registry.entries

add_contribution_type(multiplier, category) ==
  /\ Changeable
  /\ Cardinality(Types) < MaxTypes
  /\ registry' = [registry EXCEPT !.entries =
       [i \in 1 .. Cardinality(Types) + 1 |->
          IF i \in Types THEN @[i] ELSE NewEntry(multiplier, category)]]
  /\ UNCHANGED now

update_contribution_type_unguarded(i, multiplier, category) ==
  /\ Changeable
  /\ i \in Types
  /\ registry' = [registry EXCEPT !.entries[i].multiplier = multiplier,
                                  !.entries[i].category = category]
  /\ UNCHANGED now

\* No entry is ever made inactive.
update_contribution_type(i, multiplier, category) ==
  /\ Changeable
  /\ i \in Types
  /\ ~registry.entries[i].frozen
  /\ registry' = [registry EXCEPT !.entries[i].multiplier = multiplier,
                                  !.entries[i].category = category]
  /\ UNCHANGED now

freeze_entry(i) ==
  /\ Changeable
  /\ i \in Types
  /\ registry' = [registry EXCEPT !.entries[i].frozen = TRUE]
  /\ UNCHANGED now

AllFrozen(r) ==
  [r EXCEPT !.frozen = TRUE,
            !.entries = [i \in DOMAIN @ |-> [@[i] EXCEPT !.frozen = TRUE]]]

freeze_registry ==
  /\ Changeable
  /\ registry' = AllFrozen(registry)
  /\ UNCHANGED now

auto_freeze_registry ==
  /\ Changeable
  /\ now > registry.deadline
  /\ registry' = AllFrozen(registry)
  /\ UNCHANGED now

extend_freeze_deadline ==
  /\ Changeable
  /\ registry.extensions < MaxExtensions
  /\ registry' = [registry EXCEPT !.deadline = @ + Extension, !.extensions = @ + 1]
  /\ UNCHANGED now

RegistryNext ==
  \/ initialize_registry
  \/ \E multiplier \in Multipliers, category \in Categories :
       \/ add_contribution_type(multiplier, category)
       \/ \E i \in 1 .. MaxTypes : update_contribution_type(i, multiplier, category)
  \/ \E i \in 1 .. MaxTypes : freeze_entry(i)
  \/ freeze_registry
  \/ auto_freeze_registry
  \/ extend_freeze_deadline
  \/ passes /\ UNCHANGED registry

RegistrySpec == RegistryInit /\ [][RegistryNext]_registryVars

-----------------------------------------------------------------------------
\* Properties.

\* "Permanently" means that: a frozen entry keeps its multiplier and its pool, and a frozen
\* registry has only frozen entries and is never changed, extended or added to again.
FrozenIsForever ==
  [][registry # None =>
       /\ \A i \in Types : registry.entries[i].frozen => registry'.entries[i] = registry.entries[i]
       /\ registry.frozen =>
            /\ registry' = registry
            /\ \A i \in Types : registry.entries[i].frozen]_registryVars
=============================================================================
