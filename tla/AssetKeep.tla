------------------------------ MODULE AssetKeep ------------------------------
(***************************************************************************)
(* Which asset files this computer keeps: the wish a person set per file   *)
(* (asset-keep.json, behind asset_keep.rs), the pins the local IPFS store  *)
(* really holds, the screen's copies of both (asset-keep.ts), and the      *)
(* workers of peers.rs that pin on their own.                              *)
(*                                                                         *)
(* The screen and the workers never wait for each other.  A click writes   *)
(* the wish, gets its answer, looks for the file, pins it, and undoes the  *)
(* wish when the pin fails; a worker reads the wishes once, and then looks *)
(* at each file's wish again before and after it pins.  Answers may reach  *)
(* the screen in another order than the writes they report.               *)
(*                                                                         *)
(* Wording, sizes and clocks are left out.  A pin that times out leaves no *)
(* pin, and one asset names each file.                                     *)
(***************************************************************************)
EXTENDS Integers, Sequences, FiniteSets

CONSTANTS
  Mine,      \* the files of the assets this wallet issued
  Listed,    \* all files, in the order list_assets names them
  MaxHelp,   \* how many files one round of a worker takes (200)
  AutoPin,   \* the worker that starts every 30 minutes
  Peer,      \* the worker that pins what another computer lists
  NoFile,      \* no file
  MaxClicks, \* bound: what the person does
  MaxFaults  \* bound: calls that fail, and the one time the file breaks

File == {Listed[i] : i \in DOMAIN Listed}
Worker == {AutoPin, Peer}

ASSUME AKAssumption ==
  /\ Mine \subseteq File /\ NoFile \notin File
  /\ Listed \in Seq(File) /\ AutoPin # Peer
  /\ MaxHelp \in Nat /\ MaxClicks \in Nat /\ MaxFaults \in Nat

VARIABLES
  saved,    \* asset-keep.json
  listed,   \* the pins read for the migration that is under way, or <<>>
  pinned,   \* what the IPFS store pins
  reach,    \* the files some reachable computer holds
  missed,   \* MISSED: not asked for again for six hours
  work,     \* the workers
  prefs,    \* the screen's copy of the wishes
  shown,    \* the screen's copy of the pins
  health,   \* what the screen last found out about each file
  task,     \* busy: what runs for each row
  undo,     \* released less than five seconds ago
  bulk,     \* the bulk keep
  ask,      \* one other request of the screen
  look,     \* refreshPinned: the pins it was answered, or <<>>
  clicks, faults,
  wanted,   \* note: files somebody asked this computer to keep
  astray    \* note: files pinned against a skip by a step the code accepts

keepVars == <<saved, listed, pinned, reach, missed, work, prefs, shown, health,
          task, undo, bulk, ask, look, clicks, faults, wanted, astray>>
rust   == <<saved, listed, missed>>
screen == <<prefs, shown, health, task, undo, bulk, ask, look>>
notes == <<wanted, astray>>

Wish == {"none", "keep", "skip"}
Default == [damaged |-> FALSE, migrated |-> FALSE, auto |-> TRUE,
            dec |-> [c \in File |-> "none"]]
Damaged == [Default EXCEPT !.damaged = TRUE]

(* What the screen is answered, of what it goes by: the wishes, and whether
   they could be read. *)
View(p) == [damaged |-> p.damaged, dec |-> p.dec]

Skipped(c) == saved.dec[c] = "skip"

(* Mutant: the files of received assets are taken like one's own. *)
AutoAllowedAll(p, c) ==
  /\ ~p.damaged /\ p.migrated
  /\ p.dec[c] = "keep" \/ (p.dec[c] = "none" /\ p.auto)

(* Mutant: a keep counts for one's own files only. *)
AutoAllowedOwn(p, c) ==
  /\ ~p.damaged /\ p.migrated /\ c \in Mine
  /\ p.dec[c] = "keep" \/ (p.dec[c] = "none" /\ p.auto)

(* auto_allowed: an unread or unmigrated file allows nothing. *)
AutoAllowed(p, c) ==
  /\ ~p.damaged /\ p.migrated
  /\ \/ p.dec[c] = "keep"
     \/ p.dec[c] = "none" /\ c \in Mine /\ p.auto

RowIdle == [at |-> "idle", prev |-> "none", pinned |-> FALSE, ans |-> View(Default)]
Quiet == [at |-> "no", kind |-> "state", cids |-> {}, ans |-> View(Default)]
NoBulk == [on |-> FALSE, stop |-> FALSE, rest |-> {}, cur |-> NoFile]
Resting == [at |-> "rest", now |-> NoFile, todo |-> {}]

Prefs == [damaged : BOOLEAN, migrated : BOOLEAN, auto : BOOLEAN, dec : [File -> Wish]]
Answer == [damaged : BOOLEAN, dec : [File -> Wish]]
Pins == {<<>>} \cup {<<s>> : s \in SUBSET File}
Turn == [at : {"rest", "next", "ask", "pin", "check", "unpin"},
         now : File \cup {NoFile}, todo : SUBSET File]
Row == [at : {"idle", "keep", "kept", "find", "pin", "skip", "skipped", "unpin",
              "back", "restored"},
        prev : Wish, pinned : BOOLEAN, ans : Answer]
Health == {"unknown", "found", "missing"}
Bulk == [on : BOOLEAN, stop : BOOLEAN, rest : SUBSET File, cur : File \cup {NoFile}]
Bar == [at : {"no", "sent", "done"}, kind : {"state", "none", "reset", "auto"},
        cids : SUBSET File, ans : Answer]

KeepTypeOK ==
  /\ saved \in Prefs /\ listed \in Pins /\ missed \subseteq File
  /\ pinned \subseteq File /\ reach \subseteq File
  /\ work \in [Worker -> Turn]
  /\ prefs \in Answer /\ shown \subseteq File
  /\ health \in [File -> Health]
  /\ task \in [File -> Row] /\ undo \subseteq File
  /\ bulk \in Bulk /\ ask \in Bar /\ look \in Pins
  /\ clicks \in 0..MaxClicks /\ faults \in 0..MaxFaults
  /\ wanted \subseteq File /\ astray \subseteq File

(* A computer that comes from 0.8.7: no wishes yet, and some pins. *)
KeepInit ==
  /\ saved = Default /\ listed = <<>>
  /\ pinned \in SUBSET File /\ reach \in SUBSET File /\ missed = {}
  /\ work = [w \in Worker |-> Resting]
  /\ prefs = View(Default) /\ shown = pinned
  /\ health = [c \in File |-> "unknown"]
  /\ task = [c \in File |-> RowIdle]
  /\ undo = {} /\ bulk = NoBulk /\ ask = Quiet /\ look = <<>>
  /\ clicks = 0 /\ faults = 0
  /\ wanted = pinned /\ astray = {}

Click == clicks < MaxClicks /\ clicks' = clicks + 1
Fault == faults < MaxFaults /\ faults' = faults + 1

-----------------------------------------------------------------------------
(* The wishes: asset_keep.rs *)

(* ensure_migrated reads the pins before it takes the lock ... *)
MigrateRead ==
  /\ ~saved.damaged /\ ~saved.migrated /\ listed = <<>>
  /\ listed' = <<pinned>>
  /\ UNCHANGED <<saved, missed, pinned, reach, work, screen, clicks, faults, notes>>

(* ... and under it turns every pin without a wish into a keep, unless
   somebody has migrated or broken the file meanwhile. *)
MigrateWrite ==
  /\ listed # <<>>
  /\ listed' = <<>>
  /\ IF saved.damaged \/ saved.migrated
       THEN UNCHANGED saved
       ELSE saved' = [saved EXCEPT !.migrated = TRUE,
              !.dec = [c \in File |-> IF c \in listed[1] /\ saved.dec[c] = "none"
                                        THEN "keep" ELSE saved.dec[c]]]
  /\ UNCHANGED <<missed, pinned, reach, work, screen, clicks, faults, notes>>

(* Every writing command migrates first and goes on when the pins cannot be
   read, which takes one of the bounded faults. *)
Ready ==
  IF saved.migrated \/ saved.damaged THEN UNCHANGED faults ELSE Fault

(* asset_keep_set: all or nothing, refused when the file is damaged; a keep
   makes the workers look for the file again at once. *)
SetWish(cids, d) ==
  /\ ~saved.damaged /\ Ready
  /\ saved' = [saved EXCEPT !.dec = [c \in File |-> IF c \in cids THEN d ELSE @[c]]]
  /\ missed' = IF d = "keep" THEN missed \ cids ELSE missed
  /\ UNCHANGED listed

(* The command answers an error and nothing is written. *)
Refused ==
  /\ IF saved.damaged THEN UNCHANGED faults ELSE Fault
  /\ UNCHANGED rust

(* The file is found broken or cannot be read: from now on it reads as one
   that holds no wish. *)
Break ==
  /\ ~saved.damaged /\ Fault
  /\ saved' = Damaged
  /\ UNCHANGED <<listed, missed, pinned, reach, work, screen, clicks, notes>>

-----------------------------------------------------------------------------
(* The workers: pin_my_assets, peer_help and pin_these in peers.rs *)

(* The files are taken in the order of the list, and of those at most MaxHelp. *)
Place(c) == CHOOSE i \in DOMAIN Listed : Listed[i] = c
Before(c, d) == Place(c) < Place(d)
FirstFew(cids) == {c \in cids : Cardinality({d \in cids : Before(d, c)}) < MaxHelp}

Goes(w, at) == work' = [work EXCEPT ![w].at = at]
Drop(w, c) == work' = [work EXCEPT
  ![w] = [at |-> "next", now |-> NoFile, todo |-> @.todo \ {c}]]
Now(w) == work[w].now

(* A round of the automatic worker takes the wishes as they are now, and at
   most MaxHelp files, always from the front of the list. *)
RoundBegins ==
  /\ work[AutoPin].at = "rest"
  /\ Ready
  /\ work' = [work EXCEPT ![AutoPin] = [at |-> "next", now |-> NoFile,
        todo |-> FirstFew({c \in File : AutoAllowed(saved, c)})]]
  /\ UNCHANGED <<rust, pinned, reach, screen, clicks, notes>>

(* Help for another computer goes by its list alone. *)
HelpBegins ==
  /\ work[Peer].at = "rest" /\ Click
  /\ work' = [work EXCEPT ![Peer] = [at |-> "next", now |-> NoFile, todo |-> FirstFew(File)]]
  /\ wanted' = wanted \cup FirstFew(File)
  /\ UNCHANGED <<rust, pinned, reach, screen, faults, astray>>

RoundEnds(w) ==
  /\ work[w].at = "next" /\ work[w].todo = {}
  /\ work' = [work EXCEPT ![w] = Resting]
  /\ UNCHANGED <<rust, pinned, reach, screen, clicks, faults, notes>>

(* The next file: skipped wishes and lately missed files are left out, and so
   is one the chain cannot be asked about. *)
LookAt(w) ==
  /\ work[w].at = "next"
  /\ \E c \in work[w].todo :
        /\ \A d \in work[w].todo : ~Before(d, c)
        /\ \/ /\ IF Skipped(c) \/ c \in missed
                  THEN Drop(w, c)
                  ELSE work' = [work EXCEPT ![w].at = "ask", ![w].now = c]
              /\ UNCHANGED faults
           \/ Fault /\ Drop(w, c)
  /\ UNCHANGED <<rust, pinned, reach, screen, clicks, notes>>

(* root_alive; its answer is followed by a second look at the wish. *)
Asked(w) ==
  /\ work[w].at = "ask"
  /\ \/ /\ Now(w) \in reach \cup pinned
        /\ IF Skipped(Now(w)) THEN Drop(w, Now(w)) ELSE Goes(w, "pin")
        /\ UNCHANGED <<missed, faults>>
     \/ /\ IF Now(w) \in reach \cup pinned THEN Fault ELSE UNCHANGED faults
        /\ missed' = missed \cup {Now(w)}
        /\ Drop(w, Now(w))
  /\ UNCHANGED <<saved, listed, pinned, reach, screen, clicks, notes>>

(* pin_add comes back, minutes later for a large file. *)
PinAnswered(w) ==
  /\ work[w].at = "pin"
  /\ \/ /\ Now(w) \in reach \cup pinned
        /\ pinned' = pinned \cup {Now(w)}
        /\ Goes(w, "check")
        /\ UNCHANGED <<missed, faults>>
     \/ /\ IF Now(w) \in reach \cup pinned THEN Fault ELSE UNCHANGED faults
        /\ missed' = missed \cup {Now(w)}
        /\ Drop(w, Now(w))
        /\ UNCHANGED pinned
  /\ UNCHANGED <<saved, listed, reach, screen, clicks, notes>>

(* Mutant: no look after the pin. *)
LookAgainNot(w) ==
  /\ work[w].at = "check" /\ Drop(w, Now(w))
  /\ UNCHANGED <<rust, pinned, reach, screen, clicks, faults, notes>>

(* The third look: a skip set while the file was being pinned wins. *)
LookAgain(w) ==
  /\ work[w].at = "check"
  /\ IF Skipped(Now(w)) THEN Goes(w, "unpin") ELSE Drop(w, Now(w))
  /\ UNCHANGED <<rust, pinned, reach, screen, clicks, faults, notes>>

(* The pin is taken off again; an error of that is not looked at. *)
TakeOff(w) ==
  /\ work[w].at = "unpin" /\ Drop(w, Now(w))
  /\ \/ /\ pinned' = pinned \ {Now(w)}
        /\ UNCHANGED <<faults, astray>>
     \/ /\ Fault
        /\ astray' = astray \cup {Now(w)}
        /\ UNCHANGED pinned
  /\ UNCHANGED <<rust, reach, screen, clicks, wanted>>

WorkerStep(w) ==
  \/ RoundEnds(w) \/ LookAt(w) \/ Asked(w) \/ PinAnswered(w)
  \/ LookAgain(w) \/ TakeOff(w)

(* Six hours pass. *)
MissExpires(c) ==
  /\ c \in missed
  /\ missed' = missed \ {c}
  /\ UNCHANGED <<saved, listed, pinned, reach, work, screen, clicks, faults, notes>>

(* A computer that holds the file is switched on; one that is switched off
   shows as a failed call. *)
Appears(c) ==
  /\ c \notin reach /\ reach' = reach \cup {c}
  /\ UNCHANGED <<rust, pinned, work, screen, clicks, faults, notes>>

-----------------------------------------------------------------------------
(* The rows of the screen: asset-keep.ts *)

Busy(c) == task[c].at # "idle"
RowGoes(c, at) == task' = [task EXCEPT ![c].at = at]
RowAnswered(c, at) == task' = [task EXCEPT ![c].at = at, ![c].ans = View(saved')]
RowFree(c) == task' = [task EXCEPT ![c] = RowIdle]

Begun(c, at) == [at |-> at, prev |-> prefs.dec[c], pinned |-> c \in shown,
                 ans |-> View(Default)]

(* A skip stands while the file is pinned, and this step lets it be. *)
LetBe(cids) ==
  astray' = astray \cup {c \in cids \cap pinned' : saved'.dec[c] = "skip"}

(* keepCid begins, from a tap, an undo or the bulk keep: what the row showed
   is remembered before anything is asked. *)
KeepBegins(c) ==
  /\ ~Busy(c)
  /\ task' = [task EXCEPT ![c] = Begun(c, "keep")]
  /\ undo' = undo \ {c}
  /\ wanted' = wanted \cup {c}

Tap(c) ==
  /\ Click /\ (c \notin shown \/ c \in undo)
  /\ KeepBegins(c)
  /\ UNCHANGED <<rust, pinned, reach, work, prefs, shown, health, bulk, ask, look,
                 faults, astray>>

(* The wish first: without it nothing is pinned. *)
KeepSaved(c) ==
  /\ task[c].at = "keep"
  /\ \/ SetWish({c}, "keep") /\ RowAnswered(c, "kept")
     \/ Refused /\ RowGoes(c, "back")
  /\ UNCHANGED <<pinned, reach, work, prefs, shown, health, undo, bulk, ask, look,
                 clicks, notes>>

(* The answer replaces the screen's wishes, then the row goes by what it
   remembered: a row that showed a pin asks for none. *)
KeepTaken(c) ==
  /\ task[c].at = "kept"
  /\ prefs' = task[c].ans
  /\ IF task[c].pinned
       THEN shown' = shown \cup {c} /\ RowFree(c)
       ELSE RowGoes(c, IF health[c] = "found" THEN "pin" ELSE "find") /\ UNCHANGED shown
  /\ UNCHANGED <<rust, pinned, reach, work, health, undo, bulk, ask, look,
                 clicks, faults, notes>>

(* cid_alive: a file nobody holds stays wished for, which the row calls a
   reservation. *)
KeepFinds(c) ==
  /\ task[c].at = "find"
  /\ \/ /\ c \in reach \cup pinned
        /\ health' = [health EXCEPT ![c] = "found"]
        /\ RowGoes(c, "pin") /\ UNCHANGED faults
     \/ /\ IF c \in reach \cup pinned THEN Fault ELSE UNCHANGED faults
        /\ health' = [health EXCEPT ![c] = "missing"]
        /\ RowFree(c)
  /\ UNCHANGED <<rust, pinned, reach, work, prefs, shown, undo, bulk, ask, look,
                 clicks, notes>>

(* pin_add: the row does not look at the wish again. *)
KeepPins(c) ==
  /\ task[c].at = "pin"
  /\ \/ /\ c \in reach \cup pinned
        /\ pinned' = pinned \cup {c} /\ shown' = shown \cup {c}
        /\ RowFree(c) /\ UNCHANGED <<saved, faults>> /\ LetBe({c})
     \/ /\ IF c \in reach \cup pinned THEN Fault ELSE UNCHANGED faults
        /\ RowGoes(c, "back") /\ UNCHANGED <<saved, pinned, shown, astray>>
  /\ UNCHANGED <<listed, missed, reach, work, prefs, health, undo, bulk, ask, look,
                 clicks, wanted>>

(* unkeepCid, from a row that shows a pin. *)
Release(c) ==
  /\ Click /\ c \in shown /\ ~Busy(c)
  /\ task' = [task EXCEPT ![c] = Begun(c, "skip")]
  /\ UNCHANGED <<rust, pinned, reach, work, prefs, shown, health, undo, bulk, ask,
                 look, faults, notes>>

(* The wish first, so that no worker takes the file again. *)
SkipSaved(c) ==
  /\ task[c].at = "skip"
  /\ \/ SetWish({c}, "skip") /\ RowAnswered(c, "skipped")
     \/ Refused /\ RowGoes(c, "back")
  /\ UNCHANGED <<pinned, reach, work, prefs, shown, health, undo, bulk, ask, look,
                 clicks, notes>>

SkipTaken(c) ==
  /\ task[c].at = "skipped"
  /\ prefs' = task[c].ans /\ RowGoes(c, "unpin")
  /\ UNCHANGED <<rust, pinned, reach, work, shown, health, undo, bulk, ask, look,
                 clicks, faults, notes>>

(* pin_remove, which is an error as well when somebody else took the pin. *)
Unpins(c) ==
  /\ task[c].at = "unpin"
  /\ \/ /\ c \in pinned
        /\ pinned' = pinned \ {c} /\ shown' = shown \ {c}
        /\ health' = [health EXCEPT ![c] = "found"]
        /\ undo' = undo \cup {c} /\ astray' = astray \ {c}
        /\ RowFree(c) /\ UNCHANGED faults
     \/ /\ IF c \in pinned THEN Fault ELSE UNCHANGED faults
        /\ RowGoes(c, "back")
        /\ UNCHANGED <<pinned, shown, health, undo, astray>>
  /\ UNCHANGED <<rust, reach, work, prefs, bulk, ask, look, clicks, wanted>>

(* After an error the wish the row remembered is written back; when that
   fails too, the last one written stays. *)
PutBack(c) ==
  /\ task[c].at = "back"
  /\ UNCHANGED pinned
  /\ \/ SetWish({c}, task[c].prev) /\ RowAnswered(c, "restored")
     \/ Refused /\ RowFree(c)
  /\ LetBe({c})
  /\ UNCHANGED <<reach, work, prefs, shown, health, undo, bulk, ask, look, clicks,
                 wanted>>

RestoreTaken(c) ==
  /\ task[c].at = "restored"
  /\ prefs' = task[c].ans /\ RowFree(c)
  /\ UNCHANGED <<rust, pinned, reach, work, shown, health, undo, bulk, ask, look,
                 clicks, faults, notes>>

UndoEnds(c) ==
  /\ c \in undo /\ undo' = undo \ {c}
  /\ UNCHANGED <<rust, pinned, reach, work, prefs, shown, health, task, bulk, ask,
                 look, clicks, faults, notes>>

(* recheckOne, and the scan that follows the loading of the list. *)
Recheck(c) ==
  /\ Click /\ ~Busy(c) /\ c \notin shown
  /\ health' = [health EXCEPT
        ![c] = IF c \in reach \cup pinned THEN "found" ELSE "missing"]
  /\ UNCHANGED <<rust, pinned, reach, work, prefs, shown, task, undo, bulk, ask,
                 look, faults, notes>>

RowStep(c) ==
  \/ KeepSaved(c) \/ KeepTaken(c) \/ KeepFinds(c) \/ KeepPins(c)
  \/ SkipSaved(c) \/ SkipTaken(c) \/ Unpins(c) \/ PutBack(c) \/ RestoreTaken(c)

-----------------------------------------------------------------------------
(* What the screen does for many rows at once *)

(* bulkTargets: not shown as pinned, not declined on the screen, own files
   first. *)
Targets(received) ==
  {c \in File : c \notin shown /\ prefs.dec[c] # "skip" /\ (c \in Mine \/ received)}
Sooner(c, d) ==
  \/ c \in Mine /\ d \notin Mine
  \/ (c \in Mine <=> d \in Mine) /\ Before(c, d)

(* undecidedReceived: what the bar asks about. *)
Undecided == {c \in File \ Mine : c \notin shown /\ prefs.dec[c] = "none"}

(* bulkKeep takes its list once. *)
BulkBegins ==
  /\ Click /\ ~bulk.on
  /\ \E s \in {Targets(TRUE), Targets(FALSE), Undecided} :
        /\ s # {}
        /\ bulk' = [NoBulk EXCEPT !.on = TRUE, !.rest = s]
  /\ UNCHANGED <<rust, pinned, reach, work, prefs, shown, health, task, undo, ask,
                 look, faults, notes>>

BulkStops ==
  /\ Click /\ bulk.on /\ ~bulk.stop
  /\ bulk' = [bulk EXCEPT !.stop = TRUE]
  /\ UNCHANGED <<rust, pinned, reach, work, prefs, shown, health, task, undo, ask,
                 look, faults, notes>>

(* One row after the other; a row declined meanwhile is left alone. *)
BulkNext ==
  /\ bulk.on /\ (\A c \in {bulk.cur} \ {NoFile} : ~Busy(c))
  /\ \/ /\ bulk.stop \/ bulk.rest = {}
        /\ bulk' = NoBulk /\ UNCHANGED <<task, undo, wanted>>
     \/ /\ ~bulk.stop
        /\ \E c \in bulk.rest :
              /\ \A d \in bulk.rest : ~Sooner(d, c)
              /\ \/ /\ prefs.dec[c] = "skip" \/ Busy(c)
                    /\ bulk' = [bulk EXCEPT !.rest = @ \ {c}, !.cur = NoFile]
                    /\ UNCHANGED <<task, undo, wanted>>
                 \/ /\ prefs.dec[c] # "skip" /\ KeepBegins(c)
                    /\ bulk' = [bulk EXCEPT !.rest = @ \ {c}, !.cur = c]
  /\ UNCHANGED <<rust, pinned, reach, work, prefs, shown, health, ask, look, clicks,
                 faults, astray>>

(* One request of the bar or of the loading list is sent ... *)
Asks ==
  /\ Click /\ ask.at = "no"
  /\ \E k \in {"state", "none", "reset", "auto"} :
        /\ k = "none" => Undecided # {}
        /\ k = "reset" => prefs.damaged
        /\ ask' = [Quiet EXCEPT !.at = "sent", !.kind = k,
                     !.cids = IF k = "none" THEN Undecided ELSE {}]
  /\ UNCHANGED <<rust, pinned, reach, work, prefs, shown, health, task, undo, bulk,
                 look, faults, notes>>

Answered == ask' = [ask EXCEPT !.at = "done", !.ans = View(saved')]

(* ... carried out by Rust ... *)
AskState ==
  /\ ask.kind = "state" /\ Ready
  /\ UNCHANGED <<rust, astray>> /\ Answered
AskNone ==
  /\ ask.kind = "none" /\ SetWish(ask.cids, "skip") /\ Answered
  /\ LetBe(ask.cids)
AskAuto ==
  /\ ask.kind = "auto" /\ ~saved.damaged /\ Ready
  /\ saved' = [saved EXCEPT !.auto = ~@] /\ Answered
  /\ UNCHANGED <<listed, missed, astray>>
(* asset_keep_reset starts from nothing, then migrates and answers like a
   plain question; when the new file cannot be written the old one returns. *)
AskReset ==
  /\ ask.kind = "reset"
  /\ saved' = Default /\ ask' = [ask EXCEPT !.kind = "state"]
  /\ UNCHANGED <<listed, missed, faults, astray>>
AskFails ==
  /\ IF saved.damaged /\ ask.kind # "reset" THEN UNCHANGED faults ELSE Fault
  /\ ask.kind # "state"
  /\ ask' = Quiet /\ UNCHANGED <<rust, astray>>

AskRuns ==
  /\ ask.at = "sent"
  /\ UNCHANGED pinned
  /\ AskState \/ AskNone \/ AskAuto \/ AskReset \/ AskFails
  /\ UNCHANGED <<reach, work, prefs, shown, health, task, undo, bulk, look, clicks,
                 wanted>>

(* ... and its answer taken. *)
AskTaken ==
  /\ ask.at = "done"
  /\ prefs' = ask.ans /\ ask' = Quiet
  /\ UNCHANGED <<rust, pinned, reach, work, shown, health, task, undo, bulk, look,
                 clicks, faults, notes>>

(* refreshPinned, every minute: the pins as they were when they were read. *)
PinsRead ==
  /\ look = <<>> /\ shown # pinned
  /\ look' = <<pinned>>
  /\ UNCHANGED <<rust, pinned, reach, work, prefs, shown, health, task, undo, bulk,
                 ask, clicks, faults, notes>>
PinsTaken ==
  /\ look # <<>>
  /\ shown' = look[1] /\ look' = <<>>
  /\ UNCHANGED <<rust, pinned, reach, work, prefs, health, task, undo, bulk, ask,
                 clicks, faults, notes>>

ScreenStep == BulkNext \/ AskRuns \/ AskTaken \/ PinsRead \/ PinsTaken

KeepNext ==
  \/ MigrateRead \/ MigrateWrite \/ Break
  \/ RoundBegins \/ HelpBegins
  \/ \E w \in Worker : WorkerStep(w)
  \/ \E c \in File : MissExpires(c) \/ Appears(c)
  \/ \E c \in File : Tap(c) \/ Release(c) \/ Recheck(c) \/ UndoEnds(c) \/ RowStep(c)
  \/ BulkBegins \/ BulkStops \/ Asks \/ ScreenStep

(* The worker's timer, the six hours, the commands under way and the tasks of
   the rows go on; nobody has to click, break or answer anything else. *)
Fairness ==
  /\ WF_keepVars(MigrateRead) /\ WF_keepVars(MigrateWrite) /\ WF_keepVars(RoundBegins)
  /\ \A w \in Worker : WF_keepVars(WorkerStep(w))
  /\ \A c \in File : WF_keepVars(MissExpires(c)) /\ WF_keepVars(RowStep(c))
  /\ WF_keepVars(AskRuns)

KeepSpec == KeepInit /\ [][KeepNext]_keepVars /\ Fairness

-----------------------------------------------------------------------------
(* A skip wins over every way of pinning (peers.rs:304, 336): a file somebody
   declined is not pinned once the row and the workers have let go of it,
   except where a step that was answered an error, a "none of these" or the
   rollback of a failed keep left it so. *)
HeldBy(c) ==
  \/ task[c].at \in {"skipped", "unpin", "back"}
  \/ \E w \in Worker : /\ work[w].at \in {"check", "unpin"}
                        /\ Now(w) = c
SkipWins ==
  \A c \in File : Skipped(c) /\ c \in pinned => c \in astray \/ HeldBy(c)

(* The file of an asset somebody sent is never pinned before anybody asked
   for it, on whatever way the wishes were lost, reset and migrated. *)
ReceivedIsAsked == pinned \ Mine \subseteq wanted

(* "The keep is reserved: when the file shows up again it is kept by itself"
   (asset-keep.ts:143): a wished-for file that can be had is pinned in the
   end, as long as it is among the first MaxHelp the worker is allowed. *)
AheadOf(c) == {d \in File : Before(d, c) /\ AutoAllowed(saved, d)}
Promised(c) ==
  /\ saved.dec[c] = "keep" /\ c \in reach
  /\ Cardinality(AheadOf(c)) < MaxHelp
ReservedArrives == \A c \in File : []<>(~Promised(c) \/ c \in pinned)

-----------------------------------------------------------------------------
(* The inductive invariant behind the first two. *)

(* A worker that has taken up a file knows which. *)
WorkersHold == \A w \in Worker : work[w].at \notin {"rest", "next"} => Now(w) \in File

(* Of a file somebody sent and nobody has asked for there is no pin, also not
   among those read for a migration; ... *)
Unpinned(c) == c \notin pinned /\ (listed # <<>> => c \notin listed[1])

(* ... there is no keep, in the file or in any answer made from it; ... *)
Unwished(c) ==
  /\ saved.dec[c] # "keep" /\ prefs.dec[c] # "keep" /\ ask.ans.dec[c] # "keep"
  /\ \A d \in File : task[d].ans.dec[c] # "keep"

(* ... its row is not about to keep it and would not put a keep back; ... *)
RowLeaves(c) == task[c].prev # "keep" /\ task[c].at \notin {"keep", "kept", "find", "pin"}

(* ... and no worker has it in hand or on its list. *)
WorkLeaves(c) == \A w \in Worker : c # Now(w) /\ c \notin work[w].todo

Unasked == File \ (Mine \cup wanted)
UnaskedIsLeft ==
  \A c \in Unasked : Unpinned(c) /\ Unwished(c) /\ RowLeaves(c) /\ WorkLeaves(c)

KeepIInv == KeepTypeOK /\ WorkersHold /\ SkipWins /\ UnaskedIsLeft
=============================================================================
