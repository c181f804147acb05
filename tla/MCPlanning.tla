----------------------------- MODULE MCPlanning -----------------------------
(***************************************************************************)
(* The computations that depend on nothing but their inputs, in one run: a  *)
(* behaviour follows a schedule, resolves a configuration, migrates one of  *)
(* Sanoid's and resolves the result, or renders a message.                  *)
(*                                                                         *)
(* A small calendar for TLC: four ticks an hour, four hours a day, three    *)
(* days a week, and years of two months: month 1 has three days, month 2    *)
(* has two, three in year 4.                                                *)
(***************************************************************************)
EXTENDS Schedule, Migration, Message

MonthOf(y, m, n) == [d \in 1..n |-> <<y, m, d>>]
YearOf(y, n) == MonthOf(y, 1, 3) \o MonthOf(y, 2, n)
MCDates == YearOf(1, 2) \o YearOf(2, 2) \o YearOf(3, 2) \o YearOf(4, 3) \o YearOf(5, 2)

\* Days 14 (02-02 of year 3) and 19 (02-02 of year 4) have the transitions.
MCZones ==
  {[shift |-> 0, from |-> 0, until |-> 0],         \* UTC
   [shift |-> 4, from |-> 228, until |-> 308],     \* forward, then back an hour
   [shift |-> -4, from |-> 232, until |-> 312],    \* back, then forward an hour
   [shift |-> 2, from |-> 228, until |-> 310],     \* half an hour
   [shift |-> 4, from |-> 224, until |-> 300]}     \* at midnight

Entry(kind, period, min, hour, wday, mon, mday) ==
  [kind |-> kind, period |-> period, min |-> min, hour |-> hour,
   wday |-> wday, mon |-> mon, mday |-> mday]

Yearlies(days) ==
  {Entry("yearly", 1, min, hour, 0, date[1], date[2]) :
     min \in {0, 2}, hour \in {0, 1}, date \in days}

MCSchedules ==
  {Entry("frequently", period, 0, 0, 0, 1, 1) : period \in {1, 2, 4}}
  \cup {Entry("hourly", 1, min, 0, 0, 1, 1) : min \in {0, 3}}
  \cup {Entry("daily", 1, min, hour, 0, 1, 1) : min \in {0, 3}, hour \in 0..3}
  \cup {Entry("weekly", 1, min, hour, wday, 1, 1) :
          min \in {0, 3}, hour \in {0, 1}, wday \in 0..2}
  \cup {Entry("monthly", 1, min, hour, 0, 1, mday) :
          min \in {0, 2}, hour \in {0, 1}, mday \in 1..2}
  \cup Yearlies({<<1, 1>>, <<2, 2>>, <<2, 3>>})
  \cup Yearlies({<<2, 4>>})   \* valid, and in no year

ASSUME MCRegular == RegularCalendar /\ \A z \in Zones, s \in Schedules : Undisturbed(z, s)

-----------------------------------------------------------------------------
(* A chain of three datasets and a sibling; every mode of recursion, valid  *)
(* or not, and three ways to set fields, to values that tell them apart.    *)

MCNames == {<<"tank">>, <<"tank", "data">>, <<"tank", "data", "db">>, <<"tank", "vm">>}
MCInventories == {MCNames, MCNames \ {<<"tank", "vm">>}}

MCFields == {"hourly", "hourly_min", "weekly_wday", "script_timeout",
             "no_inconsistent_snapshot", "pre_snapshot_script"}
MCDefault ==
  [hourly |-> <<"48">>, hourly_min |-> <<"0">>, weekly_wday |-> <<"1">>, script_timeout |-> <<"5">>,
   no_inconsistent_snapshot |-> <<"true">>, pre_snapshot_script |-> <<>>]

MCTemplates == [t1 |-> [hourly |-> <<"t1">>, weekly_wday |-> <<"t1">>],
                t2 |-> [weekly_wday |-> <<"t2">>]]

Sections ==
  {[recursive |-> r, childrenOnly |-> only, templates |-> how[1], policy |-> how[2]] :
     r \in {"None", "Children", "Zfs"}, only \in BOOLEAN,
     how \in {<<<<>>, <<>>>>, <<<<"t1", "t2">>, [hourly |-> <<"own">>]>>,
              <<<<>>, [hourly |-> <<"other">>]>>}}

MCConfigurations ==
  [templates : {MCTemplates},
   datasets : UNION {[named -> Sections] : named \in UNION {kSubset(n, MCNames) : n \in 1..3}}]

-----------------------------------------------------------------------------
(* Files of Sanoid's, put together from parts of sections.                  *)

Header(name) == [section |-> name]
Set(key, value) == [key |-> key, value |-> value]
Nothing == <<>>

DefaultFiles ==
  {Nothing, <<Header(TemplateDefault), Set("hourly", <<"30">>), Set("weekly_wday", <<"2">>)>>}

UserDefaults ==
  {Nothing,
   <<Header(TemplateDefault), Set("hourly", <<"1">>), Set("weekly_wday", <<"0">>)>>,
   <<Header(TemplateDefault), Set("process_children_only", <<"yes">>),
     Set("no_inconsistent_snapshot", <<"on">>)>>}

NamedTemplates ==
  {<<Header(<<"template_", "t">>), Set("hourly", <<"2">>), Set("script_timeout", <<"-1">>),
     Set("pre_snapshot_script", <<"quiesce">>), Set("hourly_warn", <<"9">>)>>,
   <<Header(<<"template_", "t">>), Set("process_children_only", <<"1">>),
     Header(<<"template_", "sanoid_defaults">>), Set("weekly_wday", <<"3">>)>>}

Lists == {Nothing, <<Set("use_template", <<"t">>)>>, <<Set("use_template", <<"t", "default">>)>>}

Roots ==
  {<<Header(<<"tank">>)>> \o recursive \o list \o own :
     recursive \in {Nothing, <<Set("recursive", <<"yes">>)>>, <<Set("recursive", <<"zfs">>)>>,
                    <<Set("recursive", <<"off">>)>>},
     list \in Lists,
     own \in {Nothing, <<Set("process_children_only", <<>>), Set("hourly", <<"3">>),
                       Set("hourly", <<"4">>)>>}}

\* The second part of a section repeats a setting.
Children ==
  {Nothing,
   <<Header(<<"data">>), Set("path", <<"tank", "data">>), Set("use_template", <<"default", "t">>),
     Header(<<"tank">>), Set("script_timeout", <<"7">>), Set("recursive", <<"on">>)>>,
   <<Header(<<"tank", "data">>), Set("use_template", <<"sanoid_defaults">>),
     Set("recursive", <<"1">>), Set("pre_snapshot_script", <<>>),
     Header(<<"tank", "data", "db">>), Set("weekly_wday", <<"7">>)>>,
   <<Header(<<"tank", "data", "db">>), Set("hourly", <<"5">>), Set("process_children_only", <<"no">>)>>}

Wrong ==
  {<<Set("hourly", <<"1">>), Header(<<"tank">>)>>,                       \* no section yet
   <<Header(<<"tank">>), Set("", <<>>)>>,                               \* malformed
   <<Header(TemplateDefault), Set("hourly", <<"1">>)>>,                 \* no dataset
   <<Header(Version), Set("version", <<"2">>)>>,
   <<Header(<<"template_", "">>), Header(<<"tank">>)>>,
   <<Header(<<"tank">>), Set("hourly", <<"-1">>)>>,
   <<Header(<<"tank">>), Set("hourly", <<"lots">>)>>,
   <<Header(<<"tank">>), Set("weekly_wday", <<"8">>)>>,
   <<Header(<<"tank">>), Set("script_timeout", <<"soon">>)>>,
   <<Header(<<"tank">>), Set("no_inconsistent_snapshot", <<"maybe">>)>>,
   <<Header(<<"tank">>), Set("colour", <<"red">>)>>,
   <<Header(<<"tank">>), Set("recursive", <<"maybe">>)>>,
   <<Header(<<"tank">>), Set("skip_children", <<"yes">>)>>,
   <<Header(<<"tank">>), Set("skip_children", <<"maybe">>)>>,
   <<Header(<<"tank">>), Set("use_template", <<>>)>>,
   <<Header(<<"tank">>), Set("use_template", <<"absent">>)>>,
   <<Header(<<"tank">>), Set("path", <<>>)>>,
   <<Header(<<"data">>), Set("path", <<"tank">>), Header(<<"tank">>)>>,
   <<Header(<<"settings.x">>)>>, <<Header(<<"datasets.x", "data">>)>>,
   <<Header(<<"tank", "my data">>)>>, <<Header(<<"tank">>), Set("path", <<"tank", "", "vm">>)>>,
   <<Header(<<"settings.x", "my data">>)>>,
   <<Header(<<"tank">>), Header(<<"template_", "both quotes">>)>>,
   <<Header(<<"tank">>), Header(<<"template_", "u">>), Set("prune_defer", <<"300">>)>>,
   <<Header(<<"tank">>), Set("hourly_min", <<"300">>)>>}

MCSources ==
  {[main |-> user \o template \o root \o child, defaults |-> file] :
     user \in UserDefaults, template \in NamedTemplates, root \in Roots, child \in Children,
     file \in DefaultFiles}
  \cup {[main |-> lines, defaults |-> Nothing] : lines \in Wrong}

MCDotted == [d \in {"settings.x", "datasets.x"} |-> IF d = "settings.x" THEN <<"settings", "x">>
                                                    ELSE <<"datasets", "x">>]
MCComponents == {"tank", "data", "db", "vm", "x"} \cup DOMAIN MCDotted
MCNumbers == {<<n>> : n \in {"0", "1", "2", "3", "4", "5", "6", "7", "8", "9", "30", "300"}}
MCBytes == MCNumbers \ {<<"300">>}
MCNegatives == {<<"-1">>}

MCValidValues ==
  LET labels == {<<"t1">>, <<"t2">>, <<"own">>, <<"other">>}
  IN  [f \in MCFields |->
         CASE f = "hourly" -> MCNumbers \cup labels \cup {<<"48">>}
           [] f = "hourly_min" -> MCNumbers \ {<<"300">>}
           [] f = "weekly_wday" -> {<<n>> : n \in {"1", "2", "3", "4", "5", "6", "7"}} \cup labels
           [] f = "script_timeout" -> MCNumbers
           [] f = "no_inconsistent_snapshot" -> {<<"true">>, <<"false">>}
           [] f = "pre_snapshot_script" -> {<<>>, <<"/bin/sh", "-c", "quiesce">>}]

-----------------------------------------------------------------------------
(* Notices as main.rs makes them: a headline, a host, three fields or four,  *)
(* one of them long when it is the path of the configuration, and errors,   *)
(* short, longer than a line may be, or full of what a provider escapes.    *)

Text(special, plain) == [special |-> special, plain |-> plain]

MCDetails == {Text(0, 1), Text(0, 40), Text(0, 700), Text(350, 150), Text(100, 600)}

MCNotices ==
  {[headline |-> Text(0, 16), host |-> Text(2, 10), heading |-> 10,
    fields |-> <<[label |-> 7, value |-> Text(2, 40), code |-> FALSE],
                 [label |-> 9, value |-> Text(0, 60), code |-> FALSE],
                 [label |-> 6, value |-> path, code |-> TRUE]>>,
    details |-> details] :
      path \in {Text(3, 20), Text(0, 1200), Text(0, 1600), Text(0, 1617), Text(20, 1900)},
      details \in UNION {[1..n -> MCDetails] : n \in 0..4}}

-----------------------------------------------------------------------------

NoConfiguration ==
  /\ config = [templates |-> <<>>, datasets |-> <<>>]
  /\ inventory = {} /\ todo = {} /\ resolved = <<>> /\ failed = FALSE

NoMigration == source = [main |-> <<>>, defaults |-> <<>>] /\ outcome = "none"

NoSchedule ==
  /\ zone = [shift |-> 0, from |-> 0, until |-> 0]
  /\ schedule = Entry("frequently", 1, 0, 0, 0, 1, 1)
  /\ now = End /\ newest = End /\ boundary = End

NoMessage ==
  /\ markup = "Plain" /\ notice = [details |-> <<>>]
  /\ stage = "rendered" /\ done = 0
  /\ length = 0 /\ header = 0 /\ budget = 0 /\ sent = 0

Init == \/ ScheduleInit /\ NoConfiguration /\ NoMigration /\ NoMessage
        \/ ResolveInit /\ NoSchedule /\ NoMigration /\ NoMessage
        \/ MigrationInit /\ NoSchedule /\ NoMessage
        \/ MessageInit /\ NoSchedule /\ NoConfiguration /\ NoMigration

Next == \/ ScheduleNext /\ UNCHANGED <<resolveVars, migrationVars, messageVars>>
        \/ MigrationNext /\ UNCHANGED <<scheduleVars, messageVars>>
        \/ MessageNext /\ UNCHANGED <<scheduleVars, resolveVars, migrationVars>>

Spec == Init /\ [][Next]_<<scheduleVars, resolveVars, migrationVars, messageVars>>
=============================================================================
