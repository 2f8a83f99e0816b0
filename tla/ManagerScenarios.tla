-------------------------- MODULE ManagerScenarios --------------------------
(* The histories the manager's components are checked on.                   *)
EXTENDS Integers, Sequences, TLC

(* Unit 2 is bound to unit 1 and starts after it.  Clients call in any     *)
(* order; processes die, calls fail, contexts end, files change.           *)

OpNoBudget == [faults |-> 0, leaves |-> 0, cancels |-> 0, deadlines |-> 0, deaths |-> 0,
      configs |-> 0, edits |-> 0]
OpBase == [dir |-> <<{}, {1}>>, dirs |-> {}, configs |-> {}, calls |-> <<>>, starts |-> 2,
      stops |-> 2,
       bound |-> OpNoBudget, shut |-> FALSE]
OpCall(a, u) == [act |-> a, unit |-> u]

OpQuiet == [OpBase EXCEPT !.calls = <<OpCall("start", 2)>>]
OpDies == [OpQuiet EXCEPT !.bound.deaths = 1]
OpStopRace == [OpBase EXCEPT !.calls = <<OpCall("start", 2), OpCall("stop", 1)>>,
      !.bound.deaths = 2]
OpRestartRace == [OpBase EXCEPT !.calls = <<OpCall("start", 2), OpCall("restart", 1)>>,
      !.bound.deaths = 2]
OpJoined == [OpBase EXCEPT !.calls = <<OpCall("start", 2), OpCall("start", 2)>>,
                     !.bound.cancels = 1, !.bound.faults = 1, !.bound.leaves = 1]
OpRejoined == [OpBase EXCEPT !.calls = <<OpCall("start", 2), OpCall("stop", 1), OpCall("start",
      2)>>]
OpWatched == [OpBase EXCEPT !.calls = <<OpCall("start", 2), OpCall("watch", 1)>>, !.starts = 1,
      !.bound.deadlines = 1]
OpShutDown == [OpBase EXCEPT !.calls = <<OpCall("start", 2), OpCall("stop", 2)>>, !.shut = TRUE,
      !.bound.faults = 1]
OpReloaded == [OpBase EXCEPT !.calls = <<OpCall("start", 2), OpCall("stop", 2)>>,
      !.configs = {"reload", "enable"},
  !.dirs = {[defs |-> <<{}>>, ok |-> TRUE], [defs |-> <<{}, {}>>, ok |-> TRUE]},
  !.bound.configs = 2, !.bound.edits = 1]
OpEdited == [OpReloaded EXCEPT !.calls = <<OpCall("start", 2)>>, !.bound.edits = 2]

OpAll == {OpStopRace, OpRestartRace, OpJoined, OpRejoined, OpWatched, OpShutDown, OpReloaded,
      OpEdited}
OpLive == {OpDies, OpJoined, OpWatched}
OpGap == {OpDies}

-----------------------------------------------------------------------------
(* Histories of WatchHub, ExistsWatch and NativeWatch.                     *)

HubHistory(a, b, c, d, e, f, g, sat) == [starts |-> a, stops |-> b, reloads |-> c, events |-> d,
  losses |-> e, faults |-> f, closes |-> g, satisfied |-> sat]
LostHub == HubHistory(1, 1, 1, 0, 1, 0, 1, FALSE)
Hubs == {HubHistory(2, 1, 1, 1, 0, 1, 0, FALSE), HubHistory(1, 1, 2, 0, 1, 1, 0, TRUE),
      HubHistory(1, 1, 1, 1, 0, 1, 2, FALSE),
         HubHistory(2, 2, 0, 1, 0, 1, 0, TRUE), LostHub}
HubsLive == {LostHub, HubHistory(1, 1, 1, 0, 0, 1, 1, FALSE)}
HubsGap == {HubHistory(1, 0, 0, 0, 1, 0, 0, FALSE)}

PathHistory(d, f, a, c, r, t, k) == [depth |-> d, fs |-> f, armed |-> a, creates |-> c,
      deletes |-> r,
  faults |-> t, closes |-> k]
ShortPath == PathHistory(1, 0, FALSE, 1, 0, 0, 1)
Paths == {PathHistory(3, 1, TRUE, 3, 2, 1, 2), PathHistory(2, 0, FALSE, 2, 1, 1, 2),
      PathHistory(2, 2, TRUE, 2, 2, 1, 2),
          ShortPath}
PathsLive == Paths
PathsGap == {PathHistory(2, 0, TRUE, 2, 0, 0, 0)}

NativeHistory(k) == [kind |-> k, named |-> FALSE, faults |-> 2, changes |-> 2, closes |-> 4]
Natives == {NativeHistory("dir"), NativeHistory("key"), NativeHistory("sub"),
            [NativeHistory("dir") EXCEPT !.named = TRUE]}

-----------------------------------------------------------------------------
(* The schedules, state files and histories TimerEngine is checked on.     *)

TimerCal == [unit |-> "u", cals |-> {{2, 3}}, persistent |-> TRUE, boot |-> -1, startup |-> -1,
      active |-> -1]
TimerFar == [TimerCal EXCEPT !.cals = {{9}}]                \* beyond the bound on the clock
TimerLow == [TimerCal EXCEPT !.cals = {{2}}, !.persistent = FALSE]
TimerRel == [unit |-> "u", cals |-> {}, persistent |-> FALSE, boot |-> 2, startup |-> 1,
      active |-> 1]

TimerNoActivation == [id |-> 0, unit |-> "", result |-> ""]
TimerEmpty == [act |-> TimerNoActivation, lastActual |-> 0]
TimerDone == [act |-> TimerNoActivation, lastActual |-> 1]
TimerPending(u) == [act |-> [id |-> -1, unit |-> u, result |-> "pending"], lastActual |-> 1]

TimerOn(t, c, s, d, a, f, j) == [timers |-> t, callbacks |-> c, specs |-> s, disk |-> d,
                            arms |-> a, faults |-> f, jumps |-> j]

TimerFaults == TimerOn({1}, 2, {TimerCal}, {TimerEmpty}, 2, 1, {})          \* one call fails
TimerRestored == TimerOn({1}, 2, {TimerCal}, {TimerEmpty, TimerPending("u"), TimerPending("v")},
      1, 0, {1})
TimerRelative == TimerOn({1}, 2, {TimerRel}, {TimerEmpty}, 1, 0, {3})       \* the clock jumps
TimerRefreshed == TimerOn({1}, 2, {TimerRel}, {TimerEmpty}, 2, 1, {})
TimerCrowded == TimerOn({1, 2}, 1, {TimerLow}, {TimerEmpty}, 2, 0, {3})     \* two timers, one callback
TimerEdited == TimerOn({1}, 2, {TimerCal, TimerFar}, {TimerDone}, 2, 0, {})      \* the schedule changes

TimerAll == {TimerFaults, TimerRestored, TimerRelative, TimerRefreshed, TimerCrowded, TimerEdited}
TimerLive == {TimerEdited}

-----------------------------------------------------------------------------
(* Histories of JournalCapture: captures a and b belong to one unit, c to  *)
(* another; and of JournalFile: the files found when it starts.            *)

Captures == {"a", "b", "c"}
UnitOf == [g \in Captures |-> IF g = "c" THEN "v" ELSE "u"]
Offered(x, y, z) == [g \in Captures |-> IF g = "a" THEN x ELSE IF g = "b" THEN y ELSE z]
Flow(m, r, w, f) == [main |-> m, records |-> r, waits |-> w, faults |-> f]
CrowdedFlow == Flow({"a"}, Offered(3, 0, 2), {}, 1)
ReplacedFlow == Flow({"a", "b"}, Offered(1, 1, 0), {"a", "b"}, 1)
WaitedFlow == Flow({"a"}, Offered(1, 2, 0), {"a", "b"}, 0)
ManyFlow == Flow({}, Offered(1, 1, 1), {}, 0)
Flows == {CrowdedFlow, ReplacedFlow, WaitedFlow, ManyFlow}
BriefFlow == Flow({"a", "b"}, Offered(1, 1, 0), {"a"}, 1)
FlowsLive == {Flow({"a"}, Offered(3, 0, 1), {}, 0), BriefFlow}

Lines(l) == [i \in 1..Len(l) |-> [n |-> l[i], form |-> "line"]]
StoreOn(d, first, w, fa, cr, rec, rd) ==
  [disk |-> d, first |-> first, stamps |-> <<1, 2, 3, 4, 5, 6>>, follow |-> "u",
   writers |-> w, faults |-> fa,
   crashes |-> cr, records |-> rec, readers |-> rd]
RotatedFiles == <<"u", 0>> :> Lines(<<3, 4>>) @@ <<"u", 1>> :> Lines(<<2>>) @@ <<"u",
      2>> :> Lines(<<1>>)
OlderFiles == <<"v", 0>> :> Lines(<<2, 3>>) @@ <<"v", 1>> :> Lines(<<1>>)
ManyFiles == [x \in {"v"} \X (0..2) |-> Lines(<<3 - x[2]>>)]
FreshStore == StoreOn(<<"u", 0>> :> Lines(<<1>>), 2, {"u"}, 1, 1, 4, 0)
FollowedStore == StoreOn(RotatedFiles, 5, {"u"}, 0, 0, 6, 2)
(* Two records stamped in the other order: in the file found, in the next  *)
(* one, or one in each.                                                    *)
UnorderedStores ==
  {[FollowedStore EXCEPT !.stamps = t] :
     t \in {<<1, 2, 4, 3, 5, 6>>, <<1, 2, 3, 4, 6, 5>>, <<1, 2, 3, 5, 4, 6>>}}
ContendedStore == StoreOn(OlderFiles, 4, {"u", "v"}, 1, 0, 6, 0)
Stores == {FreshStore, FollowedStore, StoreOn(RotatedFiles, 5, {"u"}, 2, 0, 6, 0),
           StoreOn(RotatedFiles, 5, {"u"}, 0, 1, 6, 0), ContendedStore}
          \cup UnorderedStores \cup {StoreOn(ManyFiles, 4, {"u"}, 1, 0, 5, 0)}
StoresLive == {FreshStore, ContendedStore}

-----------------------------------------------------------------------------
(* Floor commands and package transactions Servicing is checked on.        *)

SvcLeft(f, s, k, w) == [faults |-> f, starts |-> s, kills |-> k, swaps |-> w]
SvcMsi(m, b, c) == [mode |-> m, build |-> b, components |-> c, pilots |-> 0]
SvcCmd(v, f) == [verb |-> v, floor |-> f]
SvcBase == [record |-> {}, cmds |-> << >>, running |-> FALSE, own |-> "ours", disk |-> {"b", "f"},
         safe |-> TRUE, chain |-> "held", msi |-> SvcMsi("none", {}, FALSE), left |-> SvcLeft(0,
      0, 0, 0)]

SvcRaise == [SvcBase EXCEPT !.cmds = <<SvcCmd("set", {"f"})>>, !.left = SvcLeft(1, 2, 1, 1)]
\* raises while a package of an older build is installed and started
SvcRaiseAndUpgrade == [SvcBase EXCEPT !.cmds = <<SvcCmd("set", {"f"}), SvcCmd("set", {"f"})>>,
                                !.msi = SvcMsi("upgrade", {"b"}, TRUE), !.left = SvcLeft(0, 1, 0,
      0)]
SvcLower == [SvcBase EXCEPT !.record = {"b", "f"}, !.left = SvcLeft(0, 1, 1, 0),
                      !.cmds = <<SvcCmd("set", {"f"}), SvcCmd("clear", {}), SvcCmd("check", {})>>]
SvcPackages == {[SvcBase EXCEPT !.running = r, !.msi = SvcMsi(m, {"b", "g"}, c),
      !.left = SvcLeft(2, 0, 0, 0), !.record = rec] :
  r \in BOOLEAN, m \in {"repair", "upgrade", "uninstall"}, c \in BOOLEAN, rec \in {{}, {"f"}}}
SvcOwners == {[SvcBase EXCEPT !.own = o, !.msi = SvcMsi(m, {"b"}, TRUE), !.left = SvcLeft(1, 1,
      1, 1)] :
  o \in {"none", "other", "ours"}, m \in {"install", "upgrade"}}
SvcUnsafe == {[SvcBase EXCEPT !.cmds = <<SvcCmd("set", {"f"}), SvcCmd("clear", {}),
      SvcCmd("check", {})>>, !.chain = ch,
                        !.safe = FALSE, !.left = SvcLeft(0, 1, 0, 1)] : ch \in {"missing",
      "unsafe"}}
SvcPilots == {[SvcBase EXCEPT !.running = TRUE, !.msi = [SvcMsi("repair", {"b"},
      FALSE) EXCEPT !.pilots = 1]]}

\* others start, end or replace the service while it is serviced
SvcDisturbed(m, c, w) == [SvcBase EXCEPT !.running = TRUE, !.msi = SvcMsi(m, {"b"}, c),
                                         !.left = SvcLeft(1, 1, 1 - w, w)]

SvcAll == {SvcRaise, SvcRaiseAndUpgrade, SvcLower, SvcDisturbed("repair", FALSE, 1)}
       \cup SvcPackages \cup SvcOwners \cup SvcUnsafe \cup SvcPilots
SvcLive == {SvcRaise, [SvcBase EXCEPT !.msi = SvcMsi("upgrade", {"b"}, TRUE)],
            SvcDisturbed("upgrade", TRUE, 0), SvcDisturbed("repair", FALSE, 0)}
        \cup SvcPilots \cup {s \in SvcPackages : s.record = {} /\ s.running}
=============================================================================
