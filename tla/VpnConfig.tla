----------------------------- MODULE VpnConfig -----------------------------
(***************************************************************************)
(* The configuration: what VpnConfig.java keeps in memory, in the shared   *)
(* preferences, in their file and in the native Settings, and the tasks of *)
(* the background thread that carry values between them.  Two keys stand   *)
(* for all: "core", a setting the native library knows, and "ctrls", the   *)
(* serialised strategies of one of the three maps.  c is the record of all *)
(* of it.                                                                  *)
(***************************************************************************)
EXTENDS Naturals, Sequences

CONSTANTS Values,   \* values of a setting, other than the empty string
          Targets,  \* what a strategy may be set for
          Colons,   \* the targets with a ':' in their names (IPv6 addresses)
          KeyOf,    \* what such a name has before its first ':'
          NumOf,    \* the number it has behind it; 0: no number
          Ctrls     \* AVAIL_CTRLS, as their bits

ASSUME ConfigAssumption ==
  /\ "" \notin Values /\ "absent" \notin Values
  /\ Colons \subseteq Targets
  /\ Ctrls \subseteq Nat \ {0}
  /\ KeyOf \in [Colons -> Targets \ Colons] /\ NumOf \in [Colons -> Nat]

(* A strategy, or what is taken for one; 0 for a target that has none.     *)
Numbers == Ctrls \cup {0} \cup {NumOf[c] : c \in Colons}

Strategies == [Targets -> Numbers]

(* A serialised map: its entries; no entry is the empty string.            *)
Serialised == SUBSET (Targets \X (Numbers \ {0}))

NoCtrls == [t \in Targets |-> 0]

serializeCtrls(ctrls) == {<<t, ctrls[t]>> : t \in {u \in Targets : ctrls[u] # 0}}

(* What the entries say of target t.  The reader cuts an entry at every    *)
(* ':' and puts the second piece for the first: of a target with a ':' in  *)
(* its name the pieces are of the name, and what was set for it is lost.   *)
Reads(entries, t) ==
  {e[2] : e \in {x \in entries : x[1] \notin Colons /\ x[1] = t}} \cup
  {NumOf[e[1]] : e \in {x \in entries : /\ x[1] \in Colons
                                       /\ KeyOf[x[1]] = t /\ NumOf[x[1]] # 0}}

(* The maps it may make: the last of several entries for a target counts,  *)
(* and the order of the entries is left open.                              *)
parseCtrls(entries) ==
  {m \in Strategies :
     \A t \in Targets : m[t] \in IF Reads(entries, t) = {} THEN {0} ELSE Reads(entries, t)}

Keys == {"core", "ctrls"}

SaveConfigTask(key, value) == [task |-> "save", key |-> key, value |-> value]

(* todo holds the keys the task has not read yet.                          *)
LoadConfigTask == [task |-> "load", todo |-> Keys]

(* sConfigs without entries; strategies that are absent parse as none.     *)
Cleared == [core |-> "absent", ctrls |-> {}]

(* A process that has just started: its preferences are the file's.        *)
Booted(file) ==
  [sInited   |-> FALSE,
   sConfigs  |-> Cleared,
   ctrls     |-> NoCtrls,
   sSP       |-> file,
   file      |-> file,
   settings  |-> "absent",
   bg        |-> <<>>]

schedule(c, task) == [c EXCEPT !.bg = Append(@, task)]

(* Mutant: every call of init loads the file.                              *)
Mut_initAgain(c) == [schedule(c, LoadConfigTask) EXCEPT !.sInited = TRUE]

init(c) ==
  IF c.sInited THEN c
  ELSE [schedule(c, LoadConfigTask) EXCEPT !.sInited = TRUE]

setConfig(c, value) ==
  IF value = c.sConfigs.core THEN c
  ELSE schedule([c EXCEPT !.sConfigs.core = value], SaveConfigTask("core", value))

(* ctrl = 0 is the null that removes a strategy.                           *)
updateCtrl(c, target, ctrl) ==
  IF c.ctrls[target] = ctrl THEN c
  ELSE LET new == [c.ctrls EXCEPT ![target] = ctrl]
       IN  schedule([c EXCEPT !.ctrls = new],
                    SaveConfigTask("ctrls", serializeCtrls(new)))

(* The calls between the Java and the native settings skip the empty       *)
(* string (and null).                                                      *)
setShellConfig(c, value) ==
  IF value \in {"", "absent"} THEN c ELSE [c EXCEPT !.settings = value]

(* LoadConfigTask.run: clear() with the first key, then one put a step; it *)
(* holds no lock.                                                          *)
ReadKey(c, key) ==
  LET task == Head(c.bg)
      base == IF task.todo = Keys
              THEN Cleared ELSE c.sConfigs
  IN  [c EXCEPT !.sConfigs = [base EXCEPT ![key] = c.sSP[key]],
                !.bg[1].todo = @ \ {key}]

(* SaveConfigTask.run up to commit(), whose result is ignored: the         *)
(* preferences in memory have the value, and all of them are written to    *)
(* the file or, when that fails, none.                                     *)
Commit(c, written) ==
  LET task == Head(c.bg)
      new  == [c.sSP EXCEPT ![task.key] = task.value]
  IN  [c EXCEPT !.sSP = new, !.file = IF written THEN new ELSE @, !.bg = Tail(@)]

onConfigSaveSucc(c, key, value) ==
  IF key = "core" THEN setShellConfig(c, value) ELSE c

(* ctrls is a map parseCtrls makes of what was read.                       *)
onConfigLoadSucc(c, ctrls) ==
  setShellConfig([c EXCEPT !.ctrls = ctrls], c.sConfigs.core)
=============================================================================
