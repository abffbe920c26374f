-------------------------------- MODULE Groups --------------------------------
(***************************************************************************)
(* The panel's groups in which a reseller may create (reseller_inbounds):  *)
(* the admin's pickers for one reseller (handlers/admin.py), for all       *)
(* (handlers/admin_ext.py) and for a new one (services/group_picker.py).   *)
(*                                                                         *)
(* No row means every group.  A save reads the reseller's rows, then, when *)
(* others may have committed, inserts its own and deletes, after them,     *)
(* those it has read (the order of SQLAlchemy's flush); a reseller has no  *)
(* group twice, and a row that is gone already is only warned about.       *)
(***************************************************************************)
EXTENDS FiniteSets

CONSTANTS
    Groups,         \* names of the panel's groups
    Resellers,
    Nobody,
    Admins          \* admins at their pickers

ASSUME GroupsAssumption == Nobody \notin Resellers \cup Admins

VARIABLES
    live,           \* resellers there are
    rows,           \* rows[r], the groups of reseller_inbounds
    session,        \* session[t], the picker of t
    choice,         \* choice[r], what was saved last, as it was picked (history)
    mixed           \* mixed[r], saves overlapped and none has set it right (history)

groupsVars == <<live, rows, session, choice, mixed>>

(* whose: of one reseller, of all, or of one that is added.  tags: what is *)
(* to be saved.  read: the rows of reseller that the save has read.        *)
(* stale: they have been written since.  mode outlives the picker only for *)
(* choice: from there on the code has the tags alone.                      *)
Session == [at: {"idle", "edit", "confirm", "write"}, whose: {"one", "all", "new"},
            reseller: Resellers \cup {Nobody}, listed: SUBSET Resellers,
            names: SUBSET Groups, mode: {"custom", "all"}, selected: SUBSET Groups,
            tags: SUBSET Groups, read: SUBSET Groups, stale: BOOLEAN]

GroupsTypeOK ==
    /\ live \subseteq Resellers
    /\ rows \in [Resellers -> SUBSET Groups]
    /\ session \in [Admins -> Session]
    /\ choice \in [Resellers -> [all: BOOLEAN, groups: SUBSET Groups]]
    /\ mixed \in [Resellers -> BOOLEAN]

Unrestricted == [all |-> TRUE, groups |-> {}]
Choice(s) == [all |-> s.mode = "all", groups |-> s.tags]

Closed == [at |-> "idle", whose |-> "one", reseller |-> Nobody, listed |-> {}, names |-> {},
           mode |-> "custom", selected |-> {}, tags |-> {}, read |-> {}, stale |-> FALSE]

GroupsInit ==
    /\ live = {}
    /\ rows = [r \in Resellers |-> {}]
    /\ session = [t \in Admins |-> Closed]
    /\ choice = [r \in Resellers |-> Unrestricted]
    /\ mixed = [r \in Resellers |-> FALSE]

-------------------------------------------------------------------------------
Stored == UNCHANGED <<live, rows, choice, mixed>>
Becomes(t, s) == session' = [session EXCEPT ![t] = s] /\ Stored

OpenOneWithoutAll(t, r, names) ==  \* mutant: a reseller without a row has a mode of his own
    /\ session[t].at = "idle" /\ names # {} /\ r \in live
    /\ Becomes(t, [Closed EXCEPT !.at = "edit", !.reseller = r, !.names = names,
                     !.mode = IF rows[r] = {} THEN "none" ELSE "custom",
                     !.selected = rows[r] \cap names])

(* inbound_reseller: the picker shows what is saved, of the groups that are *)
(* on the panel and enabled just now.                                       *)
OpenOne(t, r, names) ==
    /\ session[t].at = "idle" /\ names # {} /\ r \in live
    /\ Becomes(t, [Closed EXCEPT !.at = "edit", !.reseller = r, !.names = names,
                     !.mode = IF rows[r] = {} THEN "all" ELSE "custom",
                     !.selected = rows[r] \cap names])

(* load_group_picker: of all resellers and of a new one nothing is selected. *)
OpenPicker(t, whose, names) ==
    /\ session[t].at = "idle" /\ names # {}
    /\ whose = "all" => live # {}
    /\ Becomes(t, [Closed EXCEPT !.at = "edit", !.whose = whose, !.names = names])

(* add_name: without groups, or without the panel, a new one gets all.      *)
NoPicker(t) ==
    /\ session[t].at = "idle"
    /\ Becomes(t, [Closed EXCEPT !.at = "confirm", !.whose = "new", !.mode = "all"])

SetAll(t) ==
    /\ session[t].at = "edit"
    /\ Becomes(t, [session[t] EXCEPT !.mode = "all", !.selected = {}])

(* toggle: after "all", all but the one are selected. *)
Toggled(s, group) ==
    LET current == IF s.mode = "all" THEN s.names ELSE s.selected
    IN  IF group \in current THEN current \ {group} ELSE current \cup {group}
Toggle(t, group) ==
    /\ session[t].at = "edit" /\ group \in session[t].names
    /\ Becomes(t, [session[t] EXCEPT !.mode = "custom", !.selected = Toggled(session[t], group)])

AnyPicker(s) == TRUE  \* mutant: nothing selected goes through
(* validate *)
Valid(s) == s.mode = "custom" => s.selected # {}

(* result_tags *)
ResultTags(s) == IF s.mode = "all" THEN {} ELSE s.selected

(* global_groups_done, add_groups_done *)
PickerDone(t) ==
    LET s == session[t]
    IN  /\ s.at = "edit" /\ s.whose # "one" /\ Valid(s)
        /\ Becomes(t, [Closed EXCEPT !.at = "confirm", !.whose = s.whose, !.mode = s.mode,
                         !.tags = ResultTags(s)])

(* inbound_save: the rows are read, *)
ReadOne(t) ==
    LET s == session[t]
    IN  /\ s.at = "edit" /\ s.whose = "one" /\ Valid(s)
        /\ Becomes(t, [Closed EXCEPT !.at = "write", !.reseller = s.reseller, !.names = s.names,
                         !.mode = s.mode, !.tags = ResultTags(s), !.listed = {s.reseller},
                         !.read = rows[s.reseller]])

(* global_groups_apply: so are all resellers, and the rows of the first.    *)
ReadAll(t, r) ==
    LET s == session[t]
    IN  /\ s.at = "confirm" /\ s.whose = "all" /\ r \in live
        /\ Becomes(t, [s EXCEPT !.at = "write", !.reseller = r, !.listed = live, !.read = rows[r]])

(* The rows of r that a save of s deletes.  If they were written meanwhile *)
(* it may find any of those it has read again; the others' rows it reads   *)
(* under its own lock.                                                     *)
Deleted(s, r) ==
    IF r # s.reseller THEN {rows[r]} ELSE IF s.stale THEN SUBSET s.read ELSE {s.read}

AppendedTo(s, r) == {rows[r] \cup s.tags}  \* mutant: nothing is deleted
Written(s, r) == {(rows[r] \ gone) \cup s.tags : gone \in Deleted(s, r)}

(* The constraint of the table; the rows to be deleted are still there.    *)
Collides(s) == \E r \in s.listed : rows[r] \cap s.tags # {}

Overtake(t, us) == [u \in Admins |->
    IF u # t /\ session[u].at = "write" /\ session[u].reseller \in us
    THEN [session[u] EXCEPT !.stale = TRUE]
    ELSE session[u]]

(* The picker of one reseller stays as it was, that of all stays if its    *)
(* save has failed.                                                        *)
StillOpen(s) ==
    IF s.whose = "all"
    THEN [Closed EXCEPT !.at = "confirm", !.whose = "all", !.mode = s.mode, !.tags = s.tags]
    ELSE [Closed EXCEPT !.at = "edit", !.reseller = s.reseller, !.names = s.names,
            !.mode = s.mode, !.selected = s.tags]

(* and written, for all of them or for none. *)
Write(t) ==
    LET s == session[t]
        after == IF s.whose = "all" THEN Closed ELSE StillOpen(s)
    IN  /\ s.at = "write" /\ ~Collides(s)
        /\ rows' \in [Resellers -> SUBSET Groups]
        /\ \A r \in Resellers : rows'[r] \in IF r \in s.listed THEN Written(s, r) ELSE {rows[r]}
        /\ choice' = [r \in Resellers |-> IF r \in s.listed THEN Choice(s) ELSE choice[r]]
        /\ mixed' = [r \in Resellers |->
                       IF r \in s.listed THEN r = s.reseller /\ s.stale ELSE mixed[r]]
        /\ session' = [Overtake(t, s.listed) EXCEPT ![t] = after]
        /\ UNCHANGED live

WriteFails(t) ==
    /\ session[t].at = "write" /\ Collides(session[t])
    /\ Becomes(t, StillOpen(session[t]))

(* add_confirm: rows that a late save has left for the id are deleted if    *)
(* the new reseller is given groups of his own.                             *)
AddReseller(t, r) ==
    LET s == session[t]
    IN  /\ s.at = "confirm" /\ s.whose = "new" /\ r \notin live
        /\ s.tags \cap rows[r] = {}
        /\ live' = live \cup {r}
        /\ rows' = [rows EXCEPT ![r] = IF s.tags = {} THEN @ ELSE s.tags]
        /\ choice' = [choice EXCEPT ![r] = Choice(s)]
        /\ mixed' = [mixed EXCEPT ![r] = rows[r] # {} /\ s.tags = {}]
        /\ session' = [Overtake(t, {r}) EXCEPT ![t] = Closed]

(* cancel, or another menu *)
Leave(t) ==
    /\ session[t].at \in {"edit", "confirm"}
    /\ Becomes(t, Closed)

(* delete_permanently *)
DeleteReseller(r) ==
    /\ r \in live
    /\ live' = live \ {r}
    /\ rows' = [rows EXCEPT ![r] = {}]
    /\ choice' = [choice EXCEPT ![r] = Unrestricted]
    /\ mixed' = [mixed EXCEPT ![r] = FALSE]
    /\ session' = Overtake(Nobody, {r})

GroupsNext ==
    \/ \E t \in Admins :
         \/ NoPicker(t) \/ SetAll(t) \/ PickerDone(t)
         \/ ReadOne(t) \/ Write(t) \/ WriteFails(t) \/ Leave(t)
         \/ \E r \in Resellers : ReadAll(t, r) \/ AddReseller(t, r)
         \/ \E names \in SUBSET Groups :
              \/ \E r \in Resellers : OpenOne(t, r, names)
              \/ \E whose \in {"all", "new"} : OpenPicker(t, whose, names)
         \/ \E group \in Groups : Toggle(t, group)
    \/ \E r \in Resellers : DeleteReseller(r)

GroupsSpec == GroupsInit /\ [][GroupsNext]_groupsVars

-------------------------------------------------------------------------------
(* reseller_inbounds without a row is every group, the widest access there  *)
(* is: a reseller comes to it only when the last save chose it, whatever    *)
(* overlapped, and never by a save that selected nothing.                   *)
AllIsChosen == \A r \in live : rows[r] = {} => choice[r].all

(* repositories.py:134: unless saves overlapped, or a save outlived the     *)
(* reseller that it was for, a reseller has the groups saved last.          *)
LastChoiceHolds == \A r \in live : ~mixed[r] => rows[r] = choice[r].groups
===============================================================================
