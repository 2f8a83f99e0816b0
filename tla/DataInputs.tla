----------------------------- MODULE DataInputs -----------------------------
(* The dates, files and fixtures the pure and offline parts are checked on. *)
EXTENDS Integers, Sequences

(* Expressions, zones and start dates around leap days, the ends of months *)
(* and clock changes.  A zone's gap and fold are local slots, three a day. *)

Days == INSTANCE Calendar WITH Slots <- 3, Exprs <- {}, Zones <- {}, Starts <- {},
                               query <- 0, answer <- 0
Any == Days!Any
Date(y, m, d) == Days!DayNumber(y, m, d)

Week == <<<<0, 6>>>>
Expr(y, m, d, s, l) == [year |-> y, month |-> m, day |-> d, slot |-> s, list |-> l]
CalExprs ==
  {Expr(y, m, d, 1, Week) : y \in {Any, 2096}, m \in {Any, 2}, d \in {Any, 29, 31}}
  \cup {Expr(Any, Any, Any, s, <<<<5, 1>>>>) : s \in 0..2}
  \cup {Expr(2097, Any, 31, 0, Week), Expr(Any, Any, Any, 0, Week),
        Expr(Any, Any, 31, 1, <<<<1, 5>>>>), Expr(2096, 2, Any, 0, <<<<1, 1>>, <<6, 0>>>>)}

CalStarts == {Date(2096, 2, 28), Date(2096, 2, 29), Date(2096, 12, 31), Date(2097, 1, 31),
           Date(2097, 2, 28), Date(2088, 3, 1), Date(2104, 2, 29), Date(2097, 3, 31)}

Zone(b, g, f) == [base |-> b, gap |-> g, fold |-> f]
CalZones == {Zone(0, Date(2097, 1, 31) * 3 + 1, Date(2097, 3, 31) * 3 + 1),
          Zone(-1, Date(2096, 2, 29) * 3 + 1, Date(2096, 12, 31) * 3 + 1),
          Zone(1, Date(2096, 2, 28) * 3 + 2, Date(2096, 2, 29) * 3 + 1)}

-----------------------------------------------------------------------------
(* Fixtures and options Migrate is checked on: user 1 has a pilot, user 2  *)
(* has none.                                                               *)

NoFile == [k \in {"unit", "enable", "linger", "journal"} |-> "none"]
NoDest == [k \in {"unit", "enable", "linger", "owner", "other"} |-> "none"]
Pilot == [NoFile EXCEPT !["unit"] = "v1", !["enable"] = "v1", !["journal"] = "v1"]
NoSvc == [exists |-> FALSE, local |-> FALSE, product |-> FALSE, standard |-> FALSE,
      running |-> FALSE]
Svc == [exists |-> TRUE, local |-> TRUE, product |-> TRUE, standard |-> TRUE, running |-> TRUE]
Fx(svc, en) == [svc |-> svc, beta |-> FALSE, reparse |-> FALSE, unsafe |-> FALSE,
      launcher |-> FALSE,
                enabled |-> <<en, {}>>, running |-> IF en = {} THEN {} ELSE {1}]
Opts(l, e, f) == [user |-> TRUE, linger |-> l, msi |-> TRUE, exec |-> e, fail |-> f]
Plain == Opts(FALSE, FALSE, "none")
AllUsers == [Plain EXCEPT !.user = FALSE]
On(f, p, d, os, c, k, flt, e) ==
  [fx |-> f, pilot |-> <<p, NoFile>>, dest |-> <<d, NoDest>>,
   tasks |-> <<{"pilot", "trigger"}, {}>>, process |-> <<TRUE, FALSE>>,
   real |-> IF ~f.svc.exists THEN "none" ELSE IF f.svc.running THEN "running" ELSE "stopped",
   opts |-> os, commands |-> c, crashes |-> k, faults |-> flt, edits |-> e]
Both == Fx(NoSvc, {"pilot", "trigger"})

Copies == On(Both, Pilot, NoDest, {Plain, Opts(FALSE, FALSE, "copy")}, 4, 2, 1, 1)
Lingers == On(Both, [Pilot EXCEPT !["linger"] = "v1"], [NoDest EXCEPT !["unit"] = "v1"],
              {Opts(TRUE, TRUE, "none"), Opts(FALSE, FALSE, "health")}, 4, 1, 1, 1)
Stopped == On(Fx([Svc EXCEPT !.running = FALSE], {"pilot"}), Pilot,
      [NoDest EXCEPT !["other"] = "v1"],
              {Opts(FALSE, TRUE, "none"), Opts(FALSE, TRUE, "install")}, 4, 1, 1, 1)
Foreign == On(Fx([Svc EXCEPT !.standard = FALSE], {"pilot"}), Pilot, NoDest,
              {Opts(FALSE, TRUE, "none"), AllUsers}, 3, 1, 1, 1)
Extra == On(Fx(NoSvc, {"pilot", "extra"}), Pilot, NoDest,
            {Opts(FALSE, TRUE, "none"), AllUsers, [Plain EXCEPT !.msi = FALSE]}, 3, 1, 1, 1)
Managed == On(Fx(Svc, {}), Pilot, NoDest, {Plain}, 4, 1, 1, 1)
Links == On(Both, [Pilot EXCEPT !["linger"] = "link"], [NoDest EXCEPT !["other"] = "link"],
      {Plain}, 3, 1, 0, 0)
DestLink == On(Both, Pilot, [NoDest EXCEPT !["other"] = "link"], {Plain}, 3, 1, 0, 0)
MigrateNothing == [On(Fx(NoSvc, {}), NoFile, [NoDest EXCEPT !["owner"] = "v1"], {AllUsers}, 3, 1,
      0, 0)
              EXCEPT !.tasks = <<{}, {}>>, !.process = <<FALSE, FALSE>>]

MigrateAll == {Copies, Lingers, Stopped, Foreign, Extra, Managed, Links, DestLink, MigrateNothing}

-----------------------------------------------------------------------------
(* The releases, record files and directories Floor is checked on.         *)

Num(v) == [kind |-> "num", v |-> v]
Alnum(v) == [kind |-> "alnum", v |-> v]
Text(c, p) == [core |-> <<Num(0), Num(c), Num(0)>>, pre |-> p, meta |-> << >>]
FloorTexts == {Text(1, <<Num(0)>>), Text(1, <<Num(1)>>), Text(1, <<Alnum(0), Num(0)>>), Text(0,
      << >>), Text(1, <<Alnum(0)>>),
          Text(1, << >>), [Text(0, << >>) EXCEPT !.core = <<Num(0), Num(1)>>]}

Field(k) == [key |-> k, null |-> FALSE, schema |-> 1, min |-> << >>, feats |-> {}, clean |-> FALSE]
Fields == {
  Field("schema"), [Field("schema") EXCEPT !.schema = 2],
  [Field("minVersion") EXCEPT !.min = <<Text(1, << >>)>>],
      [Field("minVersion") EXCEPT !.min = <<Text(0, << >>)>>],
  [Field("minVersion") EXCEPT !.null = TRUE], [Field("MinVersion") EXCEPT !.min = <<Text(1,
      << >>)>>],
  Field("requireFeatures"), [Field("requireFeatures") EXCEPT !.feats = {"f"}],
  Field("requireCleanBuild"), [Field("requireCleanBuild") EXCEPT !.clean = TRUE]}
FloorFiles == [fields : UNION {[1..n -> Fields] : n \in 0..3}, rest : {"end", "more"}]

Ace(t, o, m, s) == [type |-> t, only |-> o, mask |-> m, sid |-> s]
Dir(o, a) == [missing |-> FALSE, reparse |-> FALSE, directory |-> TRUE, owner |-> o, acl |-> a]
Adm == Ace("allow", FALSE, {"write", "replace", "create"}, "administrators")
Safe == Dir("system", <<<<Adm>>>>)
FloorLevels == {
  Safe, Dir("user", <<<<Adm>>>>), Dir("console", <<<<Adm>>>>), Dir("system", << >>),
  Dir("system", <<<<Adm, Ace("allow", FALSE, {"create"}, "user")>>>>),
  Dir("system", <<<<Ace("deny", FALSE, {"write"}, "user"), Ace("allow", FALSE, {"write"},
      "user")>>>>),
  Dir("system", <<<<Adm, Ace("allow", TRUE, {"write"}, "user")>>>>),
  Dir("administrators", <<<<Ace("allow", FALSE, {"replace"}, "user"), Adm>>>>),
  Dir("administrators", <<<<Ace("other", FALSE, {"replace"}, "user"), Adm>>>>),
  [Safe EXCEPT !.missing = TRUE], [Safe EXCEPT !.reparse = TRUE], [Safe EXCEPT !.directory = FALSE]}
=============================================================================
