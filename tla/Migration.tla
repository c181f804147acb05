------------------------------ MODULE Migration ------------------------------
(***************************************************************************)
(* `zsnap migrate-sanoid` (src/migration.rs, convert_sanoid): the lines of   *)
(* a Sanoid configuration, and of a file with Sanoid's defaults, become a    *)
(* zsnap configuration, or the conversion is refused.  What is converted is  *)
(* resolved as any other configuration.                                     *)
(*                                                                         *)
(* Names and values are sequences of strings: the components of a dataset,  *)
(* the elements of a list, the words of a command; a scalar has one, and an  *)
(* empty value none.  A template is <<"template_", name>>.  A line is the    *)
(* header of a section or a setting; the setting of a malformed line has an  *)
(* empty key.  Warnings are left out.                                       *)
(***************************************************************************)
EXTENDS Resolve

CONSTANTS
  Sources,        \* records [main, defaults] of the lines of the two files
  Numbers,        \* values that parse as u32,
  Bytes,          \* as u8,
  Negatives,      \* and as an i64 below zero
  MonitoringKeys, \* is_monitoring_setting
  Dotted,         \* [component such as "settings.x" -> <<"settings", "x">>, the
                  \* keys that TOML reads in it, or <<>> if it reads none]
  NoKeys          \* names that toml, asked for a value, writes as what is no key

TemplateDefault == <<"template_", "default">>
Version == <<"version">>

BoolKeys == {"autosnap", "autoprune", "no_inconsistent_snapshot", "force_post_snapshot_script"}
HookKeys == {"pre_snapshot_script", "post_snapshot_script", "pre_pruning_script",
             "pruning_script"}
NumberKeys ==
  {"frequently", "hourly", "daily", "weekly", "monthly", "yearly", "frequent_period",
   "hourly_min", "daily_hour", "daily_min", "weekly_hour", "weekly_min", "monthly_mday",
   "monthly_hour", "monthly_min", "yearly_mon", "yearly_mday", "yearly_hour", "yearly_min"}
PolicyKeys ==
  BoolKeys \cup HookKeys \cup NumberKeys \cup {"weekly_wday", "prune_defer", "script_timeout"}
StructuralKeys == {"path", "recursive", "use_template", "process_children_only", "skip_children"}

StandardDefaults ==
  [autosnap |-> <<"true">>, autoprune |-> <<"true">>,
   frequently |-> <<"0">>, hourly |-> <<"48">>, daily |-> <<"90">>, weekly |-> <<"0">>,
   monthly |-> <<"6">>, yearly |-> <<"0">>, frequent_period |-> <<"15">>,
   hourly_min |-> <<"0">>, daily_hour |-> <<"23">>, daily_min |-> <<"59">>,
   weekly_wday |-> <<"1">>, weekly_hour |-> <<"23">>, weekly_min |-> <<"30">>,
   monthly_mday |-> <<"1">>, monthly_hour |-> <<"0">>, monthly_min |-> <<"0">>,
   yearly_mon |-> <<"1">>, yearly_mday |-> <<"1">>, yearly_hour |-> <<"0">>,
   yearly_min |-> <<"0">>, prune_defer |-> <<"0">>, script_timeout |-> <<"5">>,
   no_inconsistent_snapshot |-> <<"false">>, force_post_snapshot_script |-> <<"false">>]

IsHeader(line) == "section" \in DOMAIN line

Lines(lines) ==
  /\ lines \in Seq(Range(lines))
  /\ \A line \in Range(lines) : IsName(IF IsHeader(line) THEN line.section ELSE line.value)

\* The names unique_template_name makes up.
GeneratedNames == {"sanoid_defaults", "sanoid_user_defaults"}
Numbered(base, k) == base \o "_" \o ToString(k)

ASSUME MigrationAssumption ==
  /\ Fields \subseteq PolicyKeys
  /\ MonitoringKeys \cap (PolicyKeys \cup StructuralKeys) = {}
  /\ Bytes \subseteq Numbers /\ Numbers \cap Negatives = {}
  /\ \A s \in Sources : Lines(s.main) /\ Lines(s.defaults)
  /\ \A f \in Fields :
       IF f \in DOMAIN StandardDefaults THEN StandardDefaults[f] \in ValidValues[f]
       ELSE DefaultPolicy[f] = <<>>
  /\ \A s \in Sources, base \in GeneratedNames : \A j, k \in 2..(Len(s.main) + 3) :
       Numbered(base, j) = Numbered(base, k) => j = k

VARIABLES
  source,   \* the lines; they never change
  outcome   \* "none", "pending", "converted", "refused" or "invalid"

migrationVars == <<source, outcome>>

-----------------------------------------------------------------------------
(* parse_sanoid *)

Unparsed == [sections |-> <<>>, current |-> <<>>, ok |-> TRUE]

\* Two functions as one; where both have a value it is the first's.
Over(first, second) ==
  [x \in DOMAIN first \cup DOMAIN second |->
     IF x \in DOMAIN first THEN first[x] ELSE second[x]]

\* Sections of one name are merged, and the first of two settings is kept.
ParseLine(parsed, line) ==
  IF IsHeader(line)
  THEN [parsed EXCEPT !.sections = Over(@, [name \in {line.section} |-> <<>>]),
                     !.current = line.section]
  ELSE IF parsed.current = <<>> \/ line.key = "" THEN [parsed EXCEPT !.ok = FALSE]
  ELSE [parsed EXCEPT !.sections[parsed.current] = 
                                Over(@, [key \in {line.key} |-> line.value])]

Parse(lines) ==
  LET parsed[n \in 0..Len(lines)] ==
        IF n = 0 THEN Unparsed ELSE ParseLine(parsed[n - 1], lines[n])
  IN  parsed[Len(lines)]

-----------------------------------------------------------------------------
(* Values *)

True == {<<"1">>, <<"true">>, <<"yes">>, <<"on">>}
False == {<<>>, <<"0">>, <<"false">>, <<"no">>, <<"off">>}

\* parse_bool, parse_u32, parse_weekly_wday, parse_timeout; a hook is anything.
Parses(key, value) ==
  CASE key \in BoolKeys -> value \in True \cup False
    [] key \in NumberKeys -> value \in Numbers
    [] key = "weekly_wday" -> value \in {<<n>> : n \in {"0", "1", "2", "3", "4", "5", "6", "7"}}
    [] key = "prune_defer" -> value \in Bytes
    [] key = "script_timeout" -> value \in Numbers \cup Negatives
    [] key \in HookKeys -> TRUE

\* Sunday is 0 for Perl and 7 for zsnap; every timeout up to zero is none; a
\* command goes through the shell.
Converted(key, value) ==
  CASE key \in BoolKeys -> IF value \in True THEN <<"true">> ELSE <<"false">>
    [] key = "weekly_wday" /\ value = <<"0">> -> <<"7">>
    [] key = "script_timeout" /\ value \in Negatives -> <<"0">>
    [] key \in HookKeys /\ value # <<>> -> <<"/bin/sh", "-c">> \o value
    [] OTHER -> value

\* The settings apply_policy lets pass.
Acceptable(section) ==
  \A key \in DOMAIN section :
    \/ key \in StructuralKeys \cup MonitoringKeys
    \/ key \in PolicyKeys /\ Parses(key, section[key])

\* apply_policy
Patch(section) ==
  [key \in DOMAIN section \cap Fields |-> Converted(key, section[key])]

-----------------------------------------------------------------------------
(* Sections *)

IsTemplate(name) == name[1] = "template_"
TemplateNames(sections) == {name \in DOMAIN sections : IsTemplate(name)} \ {TemplateDefault}
DatasetSections(sections) == {name \in DOMAIN sections : ~IsTemplate(name)} \ {Version}

Section(sections, name) == IF name \in DOMAIN sections THEN sections[name] ELSE <<>>

\* unique_template_name
UniqueName(base, existing) ==
  LET numbered(k) == <<"template_", Numbered(base, k)>>
      free == {k \in 2..(2 + Cardinality(existing)) : numbered(k) \notin existing}
  IN  IF <<"template_", base>> \notin existing THEN <<"template_", base>>
      ELSE numbered(Min(free))

BaseName(sections) == UniqueName("sanoid_defaults", TemplateNames(sections))

UserDefaultName(sections) ==
  UniqueName("sanoid_user_defaults", TemplateNames(sections) \cup {BaseName(sections)})

DatasetName(sections, name) ==
  IF "path" \in DOMAIN sections[name] THEN sections[name].path ELSE name

\* parse_template_list: `default` is the user's own default template, if any.
UseTemplates(sections, name) ==
  LET listed == IF "use_template" \in DOMAIN sections[name]
                THEN sections[name].use_template ELSE <<>>
      used[k \in 0..Len(listed)] ==
        IF k = 0 THEN <<>>
        ELSE IF listed[k] # "default" THEN Append(used[k - 1], <<"template_", listed[k]>>)
        ELSE IF TemplateDefault \in DOMAIN sections
        THEN Append(used[k - 1], UserDefaultName(sections))
        ELSE used[k - 1]
  IN  used[Len(listed)]

SourceOf(sections, template) ==
  IF TemplateDefault \in DOMAIN sections /\ template = UserDefaultName(sections)
  THEN TemplateDefault ELSE template

\* parse_recursion
Recursive(section) ==
  IF "recursive" \notin DOMAIN section THEN "None"
  ELSE IF section.recursive = <<"zfs">> THEN "Zfs"
  ELSE IF section.recursive \in True THEN "Children" ELSE "None"

\* resolve_process_children_only: the last of the templates, then the section.
ChildrenOnlyOverride(sections, name) ==
  LET templates == UseTemplates(sections, name)
      sources == [k \in DOMAIN templates |-> SourceOf(sections, templates[k])] \o <<name>>
      setting == {k \in DOMAIN sources :
                    "process_children_only" \in DOMAIN sections[sources[k]]}
  IN  IF setting = {} THEN "absent"
      ELSE IF sections[sources[Max(setting)]].process_children_only \in True
           THEN "yes" ELSE "no"

BadBool(section, key) == key \in DOMAIN section /\ section[key] \notin True \cup False

\* What makes convert_sanoid give up at a dataset section.
SectionRefused(sections, name) ==
  LET section == sections[name]
      templates == UseTemplates(sections, name)
      sources == {SourceOf(sections, t) : t \in Range(templates)}
  IN  \/ DatasetName(sections, name) = <<>>
      \/ "use_template" \in DOMAIN section
           /\ (section.use_template = <<>> \/ "" \in Range(section.use_template))
      \/ ~(sources \subseteq DOMAIN sections)
      \/ \E s \in sources \cup {name} : BadBool(sections[s], "process_children_only")
      \/ Recursive(section) # "Zfs" /\ BadBool(section, "recursive")
      \/ BadBool(section, "skip_children")
      \/ "skip_children" \in DOMAIN section /\ section.skip_children \in True
      \/ ~Acceptable(section)

-----------------------------------------------------------------------------
(* The generated configuration *)

Templates(sections, defaults) ==
  LET default == Patch(Section(sections, TemplateDefault))
      standard == [f \in Fields \cap DOMAIN StandardDefaults |-> StandardDefaults[f]]
      base == Over(default, Over(Patch(Section(defaults, TemplateDefault)), standard))
      generated ==
        Over([name \in {BaseName(sections)} |-> base],
             IF TemplateDefault \in DOMAIN sections
             THEN [name \in {UserDefaultName(sections)} |-> default] ELSE <<>>)
  IN  Over(generated, [name \in TemplateNames(sections) |-> Patch(sections[name])])

\* Mutant: every section starts from the defaults.
InheritsNever(sections, name) == FALSE

\* apply_base_template: a section beneath a recursive one has the defaults
\* from there.
Inherits(sections, name) ==
  \E ancestor \in DatasetSections(sections) :
    /\ Below(DatasetName(sections, name), DatasetName(sections, ancestor))
    /\ Recursive(sections[ancestor]) # "None"

ChildrenOnly(sections, name) ==
  LET default == Section(sections, TemplateDefault)
      override == ChildrenOnlyOverride(sections, name)
  IN  IF override # "absent" THEN override = "yes"
      ELSE /\ ~Inherits(sections, name)
           /\ "process_children_only" \in DOMAIN default
           /\ default.process_children_only \in True

\* can_use_friendly_dataset_header writes a supported name without quotes, and
\* is_reserved_config_header then takes some for tables of TOML: <<>> is a
\* header Config::parse cannot read.
Reread(d) ==
  IF ~ValidName(d) \/ d[1] \notin DOMAIN Dotted THEN d
  ELSE LET keys == Dotted[d[1]]
       IN  IF Len(d) = 1 /\ Len(keys) = 2 /\ keys[1] = "datasets" THEN <<keys[2]>> ELSE <<>>

OutputSection(sections, name) ==
  [recursive |-> Recursive(sections[name]),
   childrenOnly |-> ChildrenOnly(sections, name),
   templates |-> (IF Inherits(sections, name) THEN <<>> ELSE <<BaseName(sections)>>)
                   \o UseTemplates(sections, name),
   policy |-> Patch(sections[name])]

Output(sections, defaults) ==
  LET written(name) == Reread(DatasetName(sections, name))
      named(d) == CHOOSE name \in DatasetSections(sections) : written(name) = d
  IN  [templates |-> Templates(sections, defaults),
       datasets |-> [d \in {written(name) : name \in DatasetSections(sections)}
                       |-> OutputSection(sections, named(d))]]

-----------------------------------------------------------------------------
(* convert_sanoid *)

SectionsRefused(sections, defaults) ==
  LET named == {DatasetName(sections, name) : name \in DatasetSections(sections)}
  IN  \/ ~Acceptable(Section(defaults, TemplateDefault))
      \/ \E name \in TemplateNames(sections) \cup {TemplateDefault} :
           ~Acceptable(Section(sections, name))
      \/ BadBool(Section(sections, TemplateDefault), "process_children_only")
      \/ <<"template_", "">> \in DOMAIN sections
      \/ named = {} \/ Cardinality(named) < Cardinality(DatasetSections(sections))
      \/ \E name \in DatasetSections(sections) : SectionRefused(sections, name)

ChildrenOnlyRefused(sections) ==
  \E name \in DatasetSections(sections) :
    ChildrenOnly(sections, name) /\ Recursive(sections[name]) # "Children"

\* Mutant: a section beneath an atomic root is left to the validation.
AtomicUnchecked(sections) == FALSE

AtomicRefused(sections) ==
  \E name, root \in DatasetSections(sections) :
    /\ Recursive(sections[root]) = "Zfs"
    /\ Below(DatasetName(sections, name), DatasetName(sections, root))

\* Config::parse of what render_output has written; render_template_header
\* quotes the name of a template as a value.
Readable(written, sections) ==
  /\ \A name \in TemplateNames(sections) : name[2] \notin NoKeys
  /\ <<>> \notin DOMAIN written.datasets
  /\ Cardinality(DOMAIN written.datasets) = Cardinality(DatasetSections(sections))

Convert ==
  /\ outcome = "pending"
  /\ LET main == Parse(source.main)
         defaults == Parse(source.defaults)
         written == Output(main.sections, defaults.sections)
         refused == \/ ~main.ok \/ ~defaults.ok
                    \/ SectionsRefused(main.sections, defaults.sections)
                    \/ ChildrenOnlyRefused(main.sections) \/ AtomicRefused(main.sections)
     IN  IF refused
         THEN outcome' = "refused" /\ UNCHANGED <<config, todo>>
         ELSE IF ~Readable(written, main.sections) \/ ~Valid(written)
         THEN outcome' = "invalid" /\ UNCHANGED <<config, todo>>
         ELSE /\ outcome' = "converted"
              /\ config' = written
              /\ todo' = DOMAIN written.datasets
  /\ UNCHANGED <<source, inventory, resolved, failed>>

MigrationInit ==
  /\ source \in Sources
  /\ outcome = "pending"
  /\ inventory \in Inventories
  /\ config = [templates |-> <<>>, datasets |-> <<>>]
  /\ todo = {} /\ resolved = <<>> /\ failed = FALSE

\* A converted configuration is resolved.
MigrationNext ==
  \/ Convert
  \/ ResolveNext /\ UNCHANGED migrationVars

MigrationSpec ==
  MigrationInit /\ [][MigrationNext]_<<resolveVars, migrationVars>>

-----------------------------------------------------------------------------
(* What the lines mean to Sanoid, read off them without parsing            *)

\* The lines that set a key in a section, in however many parts it is written.
Says(lines, name, key) ==
  {k \in DOMAIN lines :
     /\ ~IsHeader(lines[k]) /\ lines[k].key = key
     /\ \E h \in 1..(k - 1) : /\ IsHeader(lines[h]) /\ lines[h].section = name
                              /\ \A j \in (h + 1)..k : ~IsHeader(lines[j])}

\* The first of them counts.
Said(lines, name, key) == lines[Min(Says(lines, name, key))].value
SaysYes(name, key) ==
  Says(source.main, name, key) # {} /\ Said(source.main, name, key) \in True

SanoidSections ==
  {name \in {line.section : line \in {l \in Range(source.main) : IsHeader(l)}} :
     ~IsTemplate(name) /\ name # Version}

Path(name) ==
  IF Says(source.main, name, "path") = {} THEN name ELSE Said(source.main, name, "path")

\* The templates a section uses and the section, the later the stronger.
Layers(name) ==
  LET used == IF Says(source.main, name, "use_template") = {} THEN <<>>
              ELSE Said(source.main, name, "use_template")
  IN  [k \in DOMAIN used |-> <<"template_", used[k]>>] \o <<name>>

Saying(name, key) == {k \in DOMAIN Layers(name) : Says(source.main, Layers(name)[k], key) # {}}
Strongest(name, key) == Layers(name)[Max(Saying(name, key))]

Recurses(name) ==
  \/ SaysYes(name, "recursive")
  \/ Says(source.main, name, "recursive") # {} /\ Said(source.main, name, "recursive") = <<"zfs">>

\* The user's defaults do not reach a section beneath a recursive one again.
LeftOut(name) ==
  IF Saying(name, "process_children_only") # {}
  THEN SaysYes(Strongest(name, "process_children_only"), "process_children_only")
  ELSE /\ SaysYes(TemplateDefault, "process_children_only")
       /\ \A s \in SanoidSections : Recurses(s) => ~Below(Path(name), Path(s))

SanoidReaching(d) ==
  {name \in SanoidSections :
     \/ Below(d, Path(name)) /\ Recurses(name)
     \/ d = Path(name) /\ ~LeftOut(name)}

\* zsnap's value does what Sanoid's does.
SameEffect(key, value, sanoid) ==
  CASE key \in BoolKeys -> (value = <<"true">>) <=> (sanoid \in True)
    [] key = "weekly_wday" -> value = sanoid \/ (value = <<"7">> /\ sanoid = <<"0">>)
    [] key = "script_timeout" -> value = (IF sanoid \in Negatives THEN <<"0">> ELSE sanoid)
    [] key \in HookKeys -> value = (IF sanoid = <<>> THEN <<>> ELSE <<"/bin/sh", "-c">> \o sanoid)
    [] OTHER -> value = sanoid

MeansTheSame(d, key) ==
  LET saying == {name \in SanoidReaching(d) : Saying(name, key) # {}}
      same(lines, name) == SameEffect(key, resolved[d].policy[key], Said(lines, name, key))
  IN  IF saying # {}
      THEN \E nearest \in saying :
             /\ \A name \in saying : Len(Path(name)) <= Len(Path(nearest))
             /\ same(source.main, Strongest(nearest, key))
      ELSE IF Says(source.main, TemplateDefault, key) # {} THEN same(source.main, TemplateDefault)
      ELSE IF Says(source.defaults, TemplateDefault, key) # {}
      THEN same(source.defaults, TemplateDefault)
      ELSE resolved[d].policy[key]
             = IF key \in DOMAIN StandardDefaults THEN StandardDefaults[key] ELSE <<>>

\* convert_sanoid takes the name of a pool that TOML reads as a dataset's table
\* for that dataset, and a template that the file does not have for its own.
Mistaken ==
  \E name \in SanoidSections :
    \/ Reread(Path(name)) # Path(name)
    \/ \E k \in DOMAIN Layers(name) :
         /\ Layers(name)[k] # TemplateDefault
         /\ \A line \in Range(source.main) : IsHeader(line) => line.section # Layers(name)[k]

\* A converted configuration, resolved by zsnap, manages the datasets that the
\* Sanoid file manages, and each setting of each of them has the effect that
\* the nearest section of that file, its templates from the last to the first,
\* the user's defaults, the defaults file and Sanoid's own defaults give it,
\* in this order: the detour through generated templates loses and adds
\* nothing (convert_sanoid and resolve_datasets together), but for two names
\* that it mistakes.
MigrationKeepsMeaning ==
  outcome = "converted" /\ Done /\ ~Mistaken =>
    /\ DOMAIN resolved = {d \in inventory : SanoidReaching(d) # {}}
    /\ \A d \in DOMAIN resolved, key \in Fields : MeansTheSame(d, key)

\* What convert_sanoid generates fails its own final validation only for a
\* number out of range, the name of a dataset that is not supported or that
\* TOML reads as a table, or the name of a template that is written as no key:
\* every combination of sections, templates, recursion and nesting that zsnap
\* cannot represent it has already refused, with the reason.
OnlyNamesOrValuesInvalid ==
  outcome = "invalid" =>
    \/ \E line \in Range(source.main) \cup Range(source.defaults) :
         /\ ~IsHeader(line) /\ line.key \in Fields
         /\ Converted(line.key, line.value) \notin ValidValues[line.key]
    \/ \E name \in SanoidSections : ~ValidName(Path(name)) \/ Path(name)[1] \in DOMAIN Dotted
    \/ \E line \in Range(source.main) :
         IsHeader(line) /\ IsTemplate(line.section) /\ line.section[2] \in NoKeys
=============================================================================
