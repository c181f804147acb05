------------------------------- MODULE Resolve -------------------------------
(***************************************************************************)
(* From a configuration to the datasets that are managed, each with its    *)
(* policy and the way it is snapshotted (src/planner.rs, resolve_datasets, *)
(* and src/config.rs, Config::validate and effective_policy).  A dataset   *)
(* is the sequence of the components of its name.  A policy maps fields to  *)
(* values, a patch does so for the fields it sets.                         *)
(***************************************************************************)
EXTENDS Integers, FiniteSetsExt, SequencesExt

CONSTANTS
  Names,          \* datasets a configuration may name or ZFS may hold
  Components,     \* components of supported names: not empty, only ASCII letters,
                  \* digits, '.', '-', '_' and ':'
  Fields,         \* fields of a policy
  DefaultPolicy,  \* Policy::default()
  ValidValues,    \* [field -> the values Policy::validate lets pass]
  Configurations, \* records [templates, datasets], as parsed
  Inventories     \* sets of existing datasets

IsName(d) == d \in Seq(Range(d))

\* What Config::parse makes of a file.
Parsed(c) ==
  /\ \A t \in DOMAIN c.templates : DOMAIN c.templates[t] \subseteq Fields
  /\ \A d \in DOMAIN c.datasets :
       /\ IsName(d)
       /\ c.datasets[d].recursive \in {"None", "Children", "Zfs"}
       /\ c.datasets[d].childrenOnly \in BOOLEAN
       /\ c.datasets[d].templates \in Seq(Range(c.datasets[d].templates))
       /\ DOMAIN c.datasets[d].policy \subseteq Fields

ASSUME ResolveAssumption ==
  /\ DOMAIN DefaultPolicy = Fields
  /\ \A f \in Fields : DefaultPolicy[f] \in ValidValues[f]
  /\ \A c \in Configurations : Parsed(c) /\ DOMAIN c.datasets \subseteq Names
  /\ \A i \in Inventories : i \subseteq Names
  /\ \A d \in Names : IsName(d)

VARIABLES
  config,     \* the configuration
  inventory,  \* the existing datasets; they never change
  todo,       \* the sections not resolved yet
  resolved,   \* dataset -> [policy, strategy]
  failed      \* the configuration names a dataset that does not exist

resolveVars == <<config, inventory, todo, resolved, failed>>

-----------------------------------------------------------------------------
(* The configuration *)

\* name.starts_with("{root}/")
Below(d, root) == root # d /\ IsPrefix(root, d)

\* Policy::validate looks at each field alone, so a policy passes when every
\* patch that makes it up does.
PatchValid(patch) == \A f \in DOMAIN patch : patch[f] \in ValidValues[f]

\* validate_dataset_name; an empty component is what a '/' in excess leaves.
ValidName(d) == d # <<>> /\ Range(d) \subseteq Components

SectionValid(c, d) ==
  /\ ValidName(d)
  /\ c.datasets[d].childrenOnly => c.datasets[d].recursive = "Children"
  /\ Range(c.datasets[d].templates) \subseteq DOMAIN c.templates
  /\ PatchValid(c.datasets[d].policy)

\* Mutant: sections beneath an atomic root are let through.
ValidAlone(c) ==
  /\ c.datasets # <<>>
  /\ \A t \in DOMAIN c.templates : PatchValid(c.templates[t])
  /\ \A d \in DOMAIN c.datasets : SectionValid(c, d)

Valid(c) ==
  /\ c.datasets # <<>>
  /\ \A t \in DOMAIN c.templates : PatchValid(c.templates[t])
  /\ \A d \in DOMAIN c.datasets : SectionValid(c, d)
  /\ \A root, d \in DOMAIN c.datasets :
       c.datasets[root].recursive = "Zfs" => ~Below(d, root)

\* Policy::apply
Apply(policy, patch) ==
  [f \in Fields |-> IF f \in DOMAIN patch THEN patch[f] ELSE policy[f]]

EffectivePolicy(c, d, base) ==
  LET templates == c.datasets[d].templates
      merged[k \in 0..Len(templates)] ==
        IF k = 0 THEN base ELSE Apply(merged[k - 1], c.templates[templates[k]])
  IN  Apply(merged[Len(templates)], c.datasets[d].policy)

-----------------------------------------------------------------------------
(* resolve_datasets *)

ResolveInit ==
  /\ config \in {c \in Configurations : Valid(c)}
  /\ inventory \in Inventories
  /\ todo = DOMAIN config.datasets
  /\ resolved = <<>>
  /\ failed = FALSE

\* Mutant: deeper sections first.
DeepestFirst(sections) == {d \in sections : \A e \in sections : Len(d) >= Len(e)}

\* The order of the loop.  Sections of one depth do not meet; the code takes
\* them by name.
NextSections(sections) == {d \in sections : \A e \in sections : Len(d) <= Len(e)}

Targets(root) ==
  LET section == config.datasets[root]
  IN  (IF section.childrenOnly THEN {} ELSE {root})
        \cup (IF section.recursive = "None" THEN {}
              ELSE {d \in inventory : Below(d, root)})

Strategy(d, root) ==
  IF config.datasets[root].recursive # "Zfs" THEN [how |-> "Individual"]
  ELSE IF d = root THEN [how |-> "RecursiveRoot"]
  ELSE [how |-> "CoveredByRecursive", root |-> root]

\* The body of the loop, once the section's dataset is known to exist.
ResolveTargets(root) ==
  /\ LET base == IF root \in DOMAIN resolved THEN resolved[root].policy
                 ELSE DefaultPolicy
         policy == EffectivePolicy(config, root, base)
     IN  resolved' = [d \in Targets(root) \cup DOMAIN resolved |->
                        IF d \in Targets(root)
                        THEN [policy |-> policy, strategy |-> Strategy(d, root)]
                        ELSE resolved[d]]
  /\ todo' = todo \ {root}
  /\ UNCHANGED <<config, inventory, failed>>

ResolveSection(root) ==
  /\ ~failed
  /\ root \in NextSections(todo)
  /\ root \in inventory
  /\ ResolveTargets(root)

\* The section of a dataset that does not exist ends the resolution.
FailSection(root) ==
  /\ ~failed
  /\ root \in NextSections(todo)
  /\ root \notin inventory
  /\ failed' = TRUE
  /\ UNCHANGED <<config, inventory, todo, resolved>>

ResolveNext == \E root \in todo : ResolveSection(root) \/ FailSection(root)

ResolveSpec == ResolveInit /\ [][ResolveNext]_resolveVars

-----------------------------------------------------------------------------
(* Properties of the result *)

Done == todo = {} /\ ~failed

\* The sections whose settings reach a dataset: those of its recursive
\* ancestors and its own, unless that one is for the children only.
Reaching(d) ==
  {s \in DOMAIN config.datasets :
     \/ Below(d, s) /\ config.datasets[s].recursive # "None"
     \/ s = d /\ ~config.datasets[s].childrenOnly}

\* The patches of a section, the later the stronger.
Patches(s) ==
  LET section == config.datasets[s]
  IN  [k \in DOMAIN section.templates |-> config.templates[section.templates[k]]]
        \o <<section.policy>>

Setting(s, f) == {k \in DOMAIN Patches(s) : f \in DOMAIN Patches(s)[k]}

\* What the administrator means: each field of a dataset comes from the
\* nearest section that reaches the dataset and sets the field.
Meant(d, f) ==
  LET setting == {s \in Reaching(d) : Setting(s, f) # {}}
      nearest == CHOOSE s \in setting : \A e \in setting : Len(e) <= Len(s)
  IN  IF setting = {} THEN DefaultPolicy[f] ELSE Patches(nearest)[Max(Setting(nearest, f))][f]

\* The managed datasets are those a section reaches, whatever the order of
\* the sections in the file, and every field of their policies comes from the
\* nearest section that sets it: neither a farther ancestor, nor a template
\* the section overrides, nor a sibling.
NearestSectionWins ==
  Done => /\ DOMAIN resolved = {d \in inventory : Reaching(d) # {}}
          /\ \A d \in DOMAIN resolved, f \in Fields : resolved[d].policy[f] = Meant(d, f)

\* The datasets a `zfs snapshot` for a resolved dataset takes a snapshot of.
Snapshotted(d) ==
  CASE resolved[d].strategy.how = "Individual" -> {d}
    [] resolved[d].strategy.how = "RecursiveRoot" ->
         {d} \cup {e \in inventory : Below(e, d)}
    [] resolved[d].strategy.how = "CoveredByRecursive" -> {}

\* Every managed dataset is snapshotted by exactly one command, and no command
\* reaches a dataset that is not managed (a parent left out by
\* process_children_only included): recursion modes never overlap and a
\* covered dataset is never left to a root that is not snapshotted.
OneSnapshotEach ==
  Done => \A d \in inventory :
            Cardinality({s \in DOMAIN resolved : d \in Snapshotted(s)})
              = IF d \in DOMAIN resolved THEN 1 ELSE 0
=============================================================================
