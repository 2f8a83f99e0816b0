------------------------------- MODULE Floor -------------------------------
(***************************************************************************)
(* The compatibility floor's pure part: internal/servicing/release.go and  *)
(* floor.go, and the checks of the record's directory chain in             *)
(* store_windows.go.  Servicing uses these operators.                      *)
(*                                                                         *)
(* A release string is a record of tokens [kind, v]: kind says whether the *)
(* text is a decimal ("num"), a decimal with leading zeros ("zero"),       *)
(* another run of letters, digits and hyphens ("alnum") or none of these   *)
(* ("bad"); v orders texts of one kind.  A record file is the sequence of  *)
(* its fields [key, null, schema, min, feats, clean], of which the key      *)
(* selects the value, and what follows them.                               *)
(***************************************************************************)
EXTENDS Integers, Sequences, FiniteSets, FiniteSetsExt

CONSTANTS
  Texts,      \* the release strings: [core, pre, meta], pre is << >> for none
  Features,   \* the names of capability contracts
  Files,      \* the record files: [fields, rest]
  Levels,     \* the directories: [missing, reparse, directory, owner, acl]
  MaxFeatures \* maxFloorFeatures

VARIABLES query, answer
vars == <<query, answer>>

None == [min |-> << >>, feats |-> {"no floor"}, clean |-> FALSE]
Unusable == [min |-> << >>, feats |-> {"unusable"}, clean |-> FALSE]

-----------------------------------------------------------------------------
(* Releases *)

numericIdentifier(t) == t.kind = "num"
validPrereleaseIdentifier(t) == t.kind \in {"num", "alnum"}

Parses(s) ==
  /\ Len(s.core) = 3
  /\ \A i \in 1..3 : numericIdentifier(s.core[i])
  /\ \A i \in DOMAIN s.pre : validPrereleaseIdentifier(s.pre[i])
  /\ \A i \in DOMAIN s.meta : s.meta[i].kind # "bad"

(* ParseRelease: build metadata does not take part in the order.           *)
ParseRelease(s) == [core |-> [i \in 1..3 |-> s.core[i].v], pre |-> s.pre]

Sign(n) == IF n < 0 THEN -1 ELSE IF n > 0 THEN 1 ELSE 0

comparePrerelease(a, b) ==
  IF numericIdentifier(a) = numericIdentifier(b) THEN Sign(a.v - b.v)
  ELSE IF numericIdentifier(a) THEN -1 ELSE 1

Compare(r, o) ==
  LET core == {i \in 1..3 : r.core[i] # o.core[i]}
      pre == {i \in DOMAIN r.pre \cap DOMAIN o.pre :
                comparePrerelease(r.pre[i], o.pre[i]) # 0}
  IN  IF core # {} THEN Sign(r.core[Min(core)] - o.core[Min(core)])
      ELSE IF r.pre = << >> \/ o.pre = << >>
           THEN Sign(Len(o.pre) - Len(r.pre))
      ELSE IF pre # {} THEN comparePrerelease(r.pre[Min(pre)], o.pre[Min(pre)])
      ELSE Sign(Len(r.pre) - Len(o.pre))

-----------------------------------------------------------------------------
(* Floors.  min is << >> or <<text>>: a minimum release that may be set.   *)

Validate(f) ==
  /\ f.min # << >> \/ f.feats # {} \/ f.clean
  /\ f.min # << >> => Parses(f.min[1])
  /\ Cardinality(f.feats) <= MaxFeatures
  /\ f.feats \subseteq Features

(* Evaluate's verdict.  A build is [version, feats, clean], clean being a  *)
(* known revision of an unmodified tree.                                   *)
Satisfied(f, b) ==
  f # None =>
    /\ f.min # << >> => /\ Parses(f.min[1])
                        /\ Parses(b.version)
                        /\ Compare(ParseRelease(b.version), ParseRelease(f.min[1])) >= 0
    /\ f.feats \subseteq b.feats
    /\ f.clean => b.clean

Within(f, prev) ==
  /\ prev # None
  /\ f.min # << >> =>
       /\ prev.min # << >>
       /\ Parses(f.min[1])
       /\ Parses(prev.min[1])
       /\ Compare(ParseRelease(f.min[1]), ParseRelease(prev.min[1])) <= 0
  /\ f.feats \subseteq prev.feats
  /\ f.clean => prev.clean

-----------------------------------------------------------------------------
(* The record *)

(* decodeObject that lets the last of repeated keys win, as encoding/json  *)
(* does.                                                                   *)
ObjectKeepsLast(file) ==
  /\ \A i \in DOMAIN file.fields : ~file.fields[i].null
  /\ file.rest = "end"

decodeObject(file) ==
  /\ \A i, j \in DOMAIN file.fields :
       file.fields[i].key = file.fields[j].key => i = j
  /\ \A i \in DOMAIN file.fields : ~file.fields[i].null
  /\ file.rest = "end"

Keys == {"schema", "minVersion", "requireFeatures", "requireCleanBuild"}

Of(file, key) == {file.fields[i] : i \in {i \in DOMAIN file.fields :
                                              file.fields[i].key = key}}

(* The value of the field with this key, the last of several.              *)
Last(file, key) ==
  file.fields[Max({i \in DOMAIN file.fields : file.fields[i].key = key})]

Fields(file) ==
  [min   |-> IF Of(file, "minVersion") = {} THEN << >>
             ELSE Last(file, "minVersion").min,
   feats |-> IF Of(file, "requireFeatures") = {} THEN {}
             ELSE Last(file, "requireFeatures").feats,
   clean |-> Of(file, "requireCleanBuild") # {}
             /\ Last(file, "requireCleanBuild").clean]

DecodeFloor(file) ==
  IF /\ decodeObject(file)
     /\ \A i \in DOMAIN file.fields : file.fields[i].key \in Keys
     /\ Of(file, "schema") # {} /\ Last(file, "schema").schema = 1
     /\ Validate(Fields(file))
  THEN Fields(file) ELSE Unusable

-----------------------------------------------------------------------------
(* The directory chain.  An access control entry is [type, only, mask,     *)
(* sid]; only marks an inherit-only entry.  An acl is << >> or <<entries>>.*)

Machine == {"system", "administrators", "trustedinstaller"}
trustedPrincipal(sid, self) == sid \in Machine \/ sid = self

writeRights == {"write", "replace"}
replaceRights == {"replace"}

checkSecurity(d, forbidden, inheritOnly, self) ==
  /\ trustedPrincipal(d.owner, self)
  /\ d.acl # << >>
  /\ \A i \in DOMAIN d.acl[1] :
       LET ace == d.acl[1][i]
       IN  /\ ace.type # "other"
           /\ ace.type = "allow" /\ (inheritOnly \/ ~ace.only) =>
                ace.mask \cap forbidden = {} \/ trustedPrincipal(ace.sid, self)

checkDir(d, forbidden, inheritOnly, self) ==
  /\ ~d.reparse
  /\ d.directory
  /\ checkSecurity(d, forbidden, inheritOnly, self)

(* openFloorDirs: "held", "missing" (a first install) or "unsafe".  chain  *)
(* is <<container, root, daemon>>.                                         *)
openFloorDirs(chain, self) ==
  IF chain[1].missing \/ ~checkDir(chain[1], replaceRights, FALSE, self) THEN "unsafe"
  ELSE IF chain[2].missing THEN "missing"
  ELSE IF ~checkDir(chain[2], writeRights, TRUE, self) THEN "unsafe"
  ELSE IF chain[3].missing THEN "missing"
  ELSE IF ~checkDir(chain[3], writeRights, TRUE, self) THEN "unsafe"
  ELSE "held"

-----------------------------------------------------------------------------
(* One question at a time *)

Floors == [min : {<<t>> : t \in Texts} \cup {<< >>}, feats : SUBSET Features,
           clean : BOOLEAN]

Builds == [version : Texts, feats : SUBSET Features, clean : BOOLEAN]

Init ==
  /\ answer = "pending"
  /\ \/ query \in [of : {"order"}, a : Texts, b : Texts]
     \/ query \in [of : {"within"}, f : Floors, prev : Floors]
     \/ query \in [of : {"decode"}, file : Files]
     \/ query \in [of : {"chain"}, chain : Levels \X Levels \X Levels,
                   self : {"system", "console"}]

Ask ==
  /\ answer = "pending"
  /\ answer' = IF CASE query.of = "order" ->
                       Parses(query.a) /\ Parses(query.b)
                       /\ Compare(ParseRelease(query.a), ParseRelease(query.b)) <= 0
                    [] query.of = "within" -> Within(query.f, query.prev)
                    [] query.of = "decode" -> DecodeFloor(query.file) # Unusable
                    [] query.of = "chain" ->
                       openFloorDirs(query.chain, query.self) # "unsafe"
               THEN "yes" ELSE "no"
  /\ UNCHANGED query

Spec == Init /\ [][Ask]_vars

-----------------------------------------------------------------------------
(* Properties *)

(* Precedence of releases is a total order that only equal releases (apart *)
(* from build metadata) share a place in, whatever mix of prereleases      *)
(* Compare meets: a floor never both admits and refuses one build.         *)
ReleaseOrder ==
  query.of = "order" /\ Parses(query.a) /\ Parses(query.b) =>
    LET a == ParseRelease(query.a)
        b == ParseRelease(query.b)
    IN  /\ Compare(a, b) = -Compare(b, a)
        /\ Compare(a, b) = 0 <=> a = b
        /\ \A t \in {t \in Texts : Parses(t)} :
             LET c == ParseRelease(t)
             IN  Compare(a, b) <= 0 /\ Compare(b, c) <= 0 => Compare(a, c) <= 0

(* "Within reports whether f requires nothing that prev did not, so every  *)
(* build prev admits also meets f": what setFloor writes without a stopped *)
(* manager cannot put a running build below the floor.                     *)
WithinSound ==
  query.of = "within" /\ answer = "yes" =>
    \A b \in Builds : Satisfied(query.prev, b) => Satisfied(query.f, b)

(* A record is never read as a weaker floor: a file that DecodeFloor takes *)
(* states every requirement it has anywhere, and says nothing else.        *)
NeverWeaker ==
  query.of = "decode" /\ answer = "yes" =>
    \A i \in DOMAIN query.file.fields :
      LET x == query.file.fields[i]
          f == DecodeFloor(query.file)
      IN  CASE x.key = "schema" -> x.schema = 1
            [] x.key = "minVersion" -> f.min = x.min
            [] x.key = "requireFeatures" -> f.feats = x.feats
            [] x.key = "requireCleanBuild" -> f.clean = x.clean
            [] OTHER -> FALSE

(* What a directory lets a principal do now, by the order of its entries,  *)
(* and what it hands to the entries created in it.                         *)
Granted(d, sid) ==
  IF d.acl = << >> THEN writeRights
  ELSE UNION {{r \in d.acl[1][i].mask :
                 ~\E j \in 1..(i - 1) : /\ d.acl[1][j].type = "deny"
                                        /\ ~d.acl[1][j].only
                                        /\ d.acl[1][j].sid = sid
                                        /\ r \in d.acl[1][j].mask} :
              i \in {i \in DOMAIN d.acl[1] : /\ d.acl[1][i].type = "allow"
                                             /\ ~d.acl[1][i].only
                                             /\ d.acl[1][i].sid = sid}}

HandedDown(d, sid) ==
  UNION {d.acl[1][i].mask : i \in {i \in DOMAIN d.acl[1] :
           d.acl[1][i].type = "allow" /\ d.acl[1][i].sid = sid}}

(* Absence counts as "no floor", and a record as the floor, only where     *)
(* nobody but the trusted principals could have removed or replaced it at  *)
(* any level: openFloorDirs accepts no such chain.                         *)
AbsenceTrusted ==
  query.of = "chain" /\ answer = "yes" =>
    LET c == query.chain
        others == {"user"} \cup ({"console"} \ {query.self})
    IN  \A sid \in others :
          /\ "replace" \notin Granted(c[1], sid) /\ c[1].owner # sid
          /\ \A k \in 2..3 :
               (\A j \in 2..k : ~c[j].missing) =>
                 /\ ~c[k].reparse
                 /\ c[k].owner # sid
                 /\ Granted(c[k], sid) \cap writeRights = {}
                 /\ HandedDown(c[k], sid) \cap writeRights = {}
=============================================================================
