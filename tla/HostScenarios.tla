--------------------------- MODULE HostScenarios ----------------------------
(* The histories the hosts of processes and pipes are checked on.           *)
EXTENDS Integers, Sequences

(* Connections, calls and limits ControlPipe is checked on.                *)

Conn(imp, tok, proc) == [imp |-> imp, token |-> tok, process |-> proc, pid |-> "ok"]
Admin == Conn("ok", "admin", "admin")
Call(k, m) == [conn |-> k, method |-> m, deadline |-> FALSE]
Limits(c) == [connections |-> c, requests |-> 1, stops |-> 1, diagnostics |-> 1]
ControlBase == [conns |-> <<Admin>>, calls |-> <<>>, limits |-> Limits(3), only |-> "",
      imp |-> FALSE,
       waits |-> FALSE, stop |-> FALSE]

\* three calls share one client
ControlShared == [ControlBase EXCEPT !.imp = TRUE, !.waits = TRUE,
  !.calls = <<Call(1, "start"), [Call(1, "status") EXCEPT !.deadline = TRUE], Call(1, "stop")>>]
ControlSharedByTwo == [ControlShared EXCEPT !.calls = SubSeq(@, 1, 2)]
\* more connections than slots
ControlCrowded == [ControlBase EXCEPT !.conns = <<Admin, Admin, Admin>>, !.limits = Limits(2),
  !.calls = <<Call(1, "start"), Call(2, "stop"), Call(3, "start")>>]
ControlCallers == [ControlBase EXCEPT
  !.conns = <<Conn("ok", "owner", "admin"), Conn("identity", "none", "admin"), Conn("noimp",
      "none", "system")>>,
  !.calls = <<Call(1, "maintenance"), Call(2, "status"), Call(3, "disable-linger")>>]
ControlMalformed == [ControlBase EXCEPT !.calls = <<Call(1, "garbage"), Call(1, "unknown"),
      Call(1, "foreign")>>,
                        !.waits = TRUE, !.stop = TRUE]
ControlMaintenance == [ControlBase EXCEPT !.conns = <<Admin, Admin, Admin>>, !.only = "stop",
  !.calls = <<Call(1, "start"), Call(2, "stop"), Call(3, "logs")>>]
ControlStopping == [ControlBase EXCEPT !.conns = <<Admin, Admin>>, !.calls = <<Call(1, "start"),
      Call(2, "stop")>>, !.stop = TRUE]

ControlAll == {ControlShared, ControlCrowded, ControlCallers, ControlMalformed,
      ControlMaintenance, ControlStopping}
ControlQuiet == [ControlBase EXCEPT !.conns = <<>>]
ControlLive == {ControlQuiet, ControlSharedByTwo, ControlStopping, ControlMalformed}

-----------------------------------------------------------------------------
(* Clients of the notification pipe and watchdogs NotifyPipe is checked on.*)

Client(p, b, i) == [process |-> p, body |-> b, idle |-> i]
NotifyOn(cl, d, i, t, g, f, k, n) == [clients |-> cl, dog |-> d, interval |-> i, threshold |-> t,
      grace |-> g,
  left |-> [faults |-> f, closes |-> k, ticks |-> n]]

NotifyStranger == NotifyOn(<<Client("unit", <<"READY">>, FALSE), Client("other", <<"READY">>,
      TRUE)>>, "none", 1, 1, 0, 1, 2, 0)
NotifyUnreadable == NotifyOn(<<Client("unit", <<"other", "READY">>, FALSE), Client("unreadable",
      <<"STATUS">>, FALSE)>>,
                 "none", 1, 1, 0, 0, 1, 0)
NotifyPulses == NotifyOn(<<Client("unit", <<"WATCHDOG", "WATCHDOG">>, FALSE)>>, "notify", 2, 1,
      0, 0, 1, 5)
NotifyProbes == NotifyOn(<< >>, "probe", 2, 2, 3, 0, 1, 9)
NotifyReports == NotifyOn(<<Client("unit", <<"other", "READY">>, FALSE)>>, "none", 1, 1, 0, 0, 1, 0)
NotifyHangs == NotifyOn(<<Client("unit", <<"STATUS">>, TRUE)>>, "none", 1, 1, 0, 2, 3, 0)

NotifyAll == {NotifyStranger, NotifyUnreadable, NotifyPulses, NotifyProbes, NotifyHangs}
NotifyLive == {NotifyReports, NotifyHangs}

-----------------------------------------------------------------------------
(* Sessions, policies, linger records and failures UserHost is checked on. *)

NoBound == [changes |-> 0, lost |-> 0, edits |-> 0, removals |-> 0, exits |-> 0, faults |-> 0,
            tokens |-> 0, rpcs |-> 0, shutdowns |-> 0, expiries |-> 0]
Policy(x) == [i \in {"a", "b"} |-> x]
UserTwo == [user |-> <<"a", "b">>, policy |-> Policy("enabled"), linger |-> {}, native |-> 1,
      tracked |-> 2,
        limit |-> 2, hold |-> FALSE, edits |-> {Policy("disabled"), Policy("probe")},
      bound |-> NoBound]
UserOne == [UserTwo EXCEPT !.user = <<"a">>]

UserLostChange == [UserOne EXCEPT !.bound.changes = 2, !.bound.lost = 1, !.bound.faults = 1]
UserExits == [UserOne EXCEPT !.bound.changes = 1, !.bound.exits = 1, !.bound.faults = 1]
UserRevoked == [UserOne EXCEPT !.bound.changes = 1, !.bound.edits = 1, !.bound.faults = 1]
UserLingers == [UserOne EXCEPT !.linger = {"a"}, !.bound.exits = 1, !.bound.faults = 1,
      !.bound.rpcs = 1]
UserShutDown == [UserOne EXCEPT !.bound.changes = 1, !.bound.tokens = 1, !.bound.shutdowns = 1]
UserShutTwice == [UserShutDown EXCEPT !.bound.faults = 1, !.bound.shutdowns = 2,
      !.bound.expiries = 1]
UserUntracked == [UserTwo EXCEPT !.tracked = 1, !.bound.changes = 2, !.bound.faults = 1]
UserLimited == [UserTwo EXCEPT !.limit = 1, !.bound.changes = 2, !.bound.lost = 1]
UserHeld == [UserOne EXCEPT !.hold = TRUE, !.bound.changes = 1, !.bound.rpcs = 1]
UserProbed == [UserOne EXCEPT !.policy = Policy("probe"), !.linger = {"a"}, !.native = 2,
                      !.bound.changes = 1, !.bound.removals = 1]

UserAll == {UserLostChange, UserExits, UserRevoked, UserLingers, UserShutTwice, UserUntracked,
      UserLimited, UserHeld, UserProbed}
UserDisabled == [UserRevoked EXCEPT !.edits = {Policy("disabled")}]
UserToProbe == [UserRevoked EXCEPT !.edits = {Policy("probe")}, !.bound.faults = 0]
UserLive == {UserLostChange, UserExits, UserDisabled, UserToProbe, UserShutDown}

-----------------------------------------------------------------------------
(* Launches UnitProcess is checked on.                                     *)

ProcOn(a, w, pr, se, f, t, st, c) == [account |-> a, watch |-> w, prio |-> pr, self |-> se,
      faults |-> f,
  timeouts |-> t, stops |-> st, closes |-> c]
ProcLimited == ProcOn(FALSE, TRUE, FALSE, TRUE, 1, 1, 2, 0)
ProcAccount == ProcOn(TRUE, FALSE, TRUE, FALSE, 2, 0, 1, 0)
ProcDaemonCloses == ProcOn(FALSE, FALSE, FALSE, TRUE, 1, 1, 0, 2)
ProcStopAndClose == ProcOn(FALSE, FALSE, FALSE, FALSE, 1, 0, 1, 1)
ProcAccountExits == ProcOn(TRUE, FALSE, FALSE, TRUE, 0, 0, 1, 0)

ProcAll == {ProcLimited, ProcAccount, ProcDaemonCloses, ProcStopAndClose, ProcAccountExits}
ProcAccountRuns == ProcOn(TRUE, FALSE, FALSE, FALSE, 0, 0, 1, 0)
ProcLive == {ProcOn(FALSE, TRUE, FALSE, TRUE, 1, 0, 1, 0), ProcAccountRuns}
=============================================================================
