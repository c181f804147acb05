--------------------------- MODULE MCStatusCache ---------------------------
(***************************************************************************)
(* The cache of `zsnap status` in one run: a behaviour either lists ZFS and *)
(* computes what goes into the file, or writes, reads and replaces the file *)
(* with interchangeable processes.                                          *)
(***************************************************************************)
EXTENDS StatusCache, Inventory, TLC

MCNames == {<<"tank">>, <<"tank", "a">>, <<"tank", "b">>, <<"rust">>}

MCFields == {"autosnap", "autoprune", "prune_defer", "hourly", "daily"}
MCDefault ==
  [autosnap |-> TRUE, autoprune |-> TRUE, prune_defer |-> 0, hourly |-> 1, daily |-> 0]
MCValidValues ==
  [f \in MCFields |-> IF f \in {"autosnap", "autoprune"} THEN BOOLEAN ELSE 0..100]

Section(recursive, only, policy) ==
  [recursive |-> recursive, childrenOnly |-> only, templates |-> <<>>, policy |-> policy]

MCSections ==
  {<<"tank">> :> Section("Zfs", FALSE, [daily |-> 1]),
   (<<"tank">> :> Section("Children", TRUE, <<>>))
     @@ (<<"tank", "b">> :> Section("None", FALSE, [autosnap |-> FALSE])),
   (<<"tank", "a">> :> Section("None", FALSE, [prune_defer |-> 50, hourly |-> 0]))
     @@ (<<"rust">> :> Section("Zfs", FALSE, <<>>))}

MCConfigurations == [templates : {<<>>}, datasets : MCSections]

Snapshot(kind, at, managed, protected) ==
  [kind |-> kind, at |-> at, managed |-> managed, protected |-> protected]

MCHoldings ==
  LET old == {Snapshot("hourly", -3, TRUE, FALSE), Snapshot("hourly", -2, TRUE, FALSE),
              Snapshot("foreign", -2, FALSE, FALSE)}
      held == {Snapshot("hourly", -3, TRUE, TRUE), Snapshot("hourly", -2, TRUE, FALSE)}
  IN  {[d \in MCNames |-> IF d = <<"tank", "a">> THEN old ELSE IF d = <<"rust">> THEN held ELSE {}],
       [d \in MCNames \ {<<"tank", "b">>} |-> old]}

MCPreferred == [hourly |-> {-1, 0, 1}, daily |-> {-1, 1}]
MCPeriod == [hourly |-> 1, daily |-> 2]

Symmetry == Permutations(Procs)

-----------------------------------------------------------------------------

NoInventory ==
  /\ config = [templates |-> <<>>, datasets |-> <<>>]
  /\ inventory = {} /\ todo = {} /\ resolved = <<>> /\ failed = FALSE
  /\ zfs = <<>> /\ clock = 0 /\ changes = MaxChanges /\ touched = {}
  /\ step = "none" /\ mode = "status" /\ snapshots = <<>> /\ pools = <<>>
  /\ plan = NoPlan /\ work = [snapshots |-> {}, prunes |-> {}] /\ broken = {}
  /\ cache = NoCache

NoProcess ==
  /\ mutators = {} /\ pc = [p \in Procs |-> "none"] /\ job = [p \in Procs |-> "run"]
  /\ version = [p \in Procs |-> None] /\ listed = 0
  /\ contents = [v \in Versions |-> "none"] /\ synced = {} /\ temps = {}
  /\ path = None /\ disk = {None}
  /\ shown = [p \in Procs |-> 0] /\ error = [p \in Procs |-> "none"]
  /\ acked = 0 /\ floor = [p \in Procs |-> 0] /\ killed = {}

CacheInit == \/ Init /\ NoInventory
             \/ InventoryInit /\ NoProcess

CacheNext == \/ step = "none" /\ Next /\ UNCHANGED inventoryVars
             \/ step # "none" /\ InventoryNext /\ UNCHANGED vars

CacheSpec == CacheInit /\ [][CacheNext]_<<vars, inventoryVars>>
=============================================================================
