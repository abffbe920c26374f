-------------------------------- MODULE Limits --------------------------------
(***************************************************************************)
(* The limits on what a reseller may create (services/limits.py) and the   *)
(* admin's forms that change them (handlers/admin_ext.py).                 *)
(*                                                                         *)
(* The global limits and those of a reseller are one JSON value each in    *)
(* bot_settings.  A form reads a value, changes one field of it, validates *)
(* and writes the value whole.  SQLite locks nothing for the reads before  *)
(* the first write of a transaction, and for everybody else from it to the *)
(* commit.  The write of a value equal to the one stored is no write.      *)
(***************************************************************************)
EXTENDS LimitRules

CONSTANTS
    Resellers, Nobody,
    Tasks,      \* admins at their forms
    Fields,     \* the fields they edit, of max_days, min_gb and max_gb
    Values      \* what they type; 0 is no limit

ASSUME LimitsAssumption ==
    /\ {"min_gb", "max_gb"} \subseteq Fields
    /\ Values \subseteq Nat

VARIABLES
    global,     \* limits:global
    own,        \* own[r], limits:r:<id>
    session,    \* session[t], the form of t
    warned      \* the resellers named as conflicting by the last global save

vars == <<global, own, session, warned>>

Json == [Fields -> Values \cup {Unset}]
Nothing == [f \in Fields |-> Unset]
(* json: what the form will write.  todo: resellers whose own limits a     *)
(* global save has still to look at.  overtaken: a global save committed   *)
(* after the validation (history).                                         *)
Session == [at: {"idle", "validate", "own", "global", "scan", "clear"},
             reseller: Resellers \cup {Nobody}, field: Fields, json: Json, todo: SUBSET Resellers,
             overtaken: BOOLEAN]

TypeOK ==
    /\ global \in Json
    /\ own \in [Resellers -> Json]
    /\ session \in [Tasks -> Session]
    /\ warned \subseteq Resellers

-------------------------------------------------------------------------------
ConsistentAlone(all, special) == Consistent(special)  \* mutant: only the own values are validated
ConsistentWith(all, special) == Consistent(Merge(all, special))

ConflictingToo(all, special) ==  \* mutant: the global value is taken for a reseller's
    {r \in Resellers : ~Consistent(Merge(all, special[r]))} \cup IF all = Nothing THEN {} ELSE {Nobody}
(* conflicting_resellers *)
Conflicting(all, special) == {r \in Resellers : ~Consistent(Merge(all, special[r]))}

Without(json, field) == [json EXCEPT ![field] = Unset]

AtRest == [at |-> "idle", reseller |-> Nobody, field |-> "min_gb",
            json |-> Nothing, todo |-> {}, overtaken |-> FALSE]
Idle(t) == [session EXCEPT ![t] = AtRest]

Init ==
    /\ global = Nothing
    /\ own = [r \in Resellers |-> Nothing]
    /\ session = [t \in Tasks |-> AtRest]
    /\ warned = {}

(* set_reseller_field: the reseller's own values are read, *)
ReadOwn(t, r, f, value) ==
    /\ session[t].at = "idle"
    /\ session' = [session EXCEPT ![t].at = "validate", ![t].reseller = r, ![t].field = f,
                      ![t].json = [own[r] EXCEPT ![f] = value]]
    /\ UNCHANGED <<global, own, warned>>

(* then the global ones, with which they must make sense, *)
ValidateOwn(t) ==
    /\ session[t].at = "validate"
    /\ session' = IF ConsistentWith(global, session[t].json)
                  THEN [session EXCEPT ![t].at = "own"] ELSE Idle(t)
    /\ UNCHANGED <<global, own, warned>>

(* and they are written. *)
WriteOwn(t) ==
    /\ session[t].at = "own"
    /\ own' = [own EXCEPT ![session[t].reseller] = session[t].json]
    /\ session' = Idle(t)
    /\ UNCHANGED <<global, warned>>

(* set_global_field: the global values are read and validated whole. *)
ReadGlobal(t, f, value) ==
    /\ session[t].at = "idle"
    /\ Consistent([global EXCEPT ![f] = value])
    /\ session' = [session EXCEPT ![t].at = "global", ![t].field = f,
                      ![t].json = [global EXCEPT ![f] = value]]
    /\ UNCHANGED <<global, own, warned>>

Overtake(sessions) == [t \in Tasks |->
    IF sessions[t].at = "own" THEN [sessions[t] EXCEPT !.overtaken = TRUE] ELSE sessions[t]]

FieldOnly(t) == [global EXCEPT ![session[t].field] = session[t].json[session[t].field]]  \* mutant: the field is merged into what is stored
NewGlobal(t) == session[t].json

(* A value that changes is written at once, and the lock is held until all *)
(* own values of the field are gone and the conflicts are known.           *)
WriteGlobal(t) ==
    /\ session[t].at = "global"
    /\ session[t].json # global
    /\ global' = NewGlobal(t)
    /\ own' = [r \in Resellers |-> Without(own[r], session[t].field)]
    /\ session' = Overtake(Idle(t))
    /\ warned' = Conflicting(global', own')

(* The value is stored already: nothing is locked. *)
SameGlobal(t) ==
    /\ session[t].at = "global"
    /\ session[t].json = global
    /\ session' = [session EXCEPT ![t] = [AtRest EXCEPT
                      !.at = "scan", !.field = session[t].field, !.todo = Resellers]]
    /\ UNCHANGED <<global, own, warned>>

(* The own values are looked at one by one, *)
Scan(t, r) ==
    LET s == session[t]
        f == s.field
    IN  /\ s.at = "scan" /\ r \in s.todo
        /\ session' = [session EXCEPT ![t] = IF own[r][f] = Unset
             THEN [s EXCEPT !.todo = s.todo \ {r}]
             ELSE [s EXCEPT !.at = "clear", !.todo = s.todo \ {r}, !.reseller = r,
                            !.json = Without(own[r], f)]]
        /\ UNCHANGED <<global, own, warned>>

(* the first that has the field is written, as it was when it was read,    *)
(* and with it begins the lock under which the others follow.              *)
Clear(t) ==
    LET s == session[t]
    IN  /\ s.at = "clear"
        /\ own[s.reseller] # s.json
        /\ own' = [r \in Resellers |-> IF r = s.reseller THEN s.json
                     ELSE IF r \in s.todo THEN Without(own[r], s.field) ELSE own[r]]
        /\ session' = Idle(t)
        /\ warned' = Conflicting(global, own')
        /\ UNCHANGED global

(* Somebody else has cleared it meanwhile: again nothing to write. *)
SameOwn(t) ==
    /\ session[t].at = "clear"
    /\ own[session[t].reseller] = session[t].json
    /\ session' = [session EXCEPT ![t] = [AtRest EXCEPT
                      !.at = "scan", !.field = session[t].field, !.todo = session[t].todo]]
    /\ UNCHANGED <<global, own, warned>>

ScanEnds(t) ==
    /\ session[t].at = "scan" /\ session[t].todo = {}
    /\ session' = Idle(t)
    /\ warned' = Conflicting(global, own)
    /\ UNCHANGED <<global, own>>

(* reset_reseller *)
Reset(r) ==
    /\ own' = [own EXCEPT ![r] = Nothing]
    /\ UNCHANGED <<global, session, warned>>

Next ==
    \/ \E t \in Tasks :
         \/ \E r \in Resellers, f \in Fields, value \in Values : ReadOwn(t, r, f, value)
         \/ \E f \in Fields, value \in Values : ReadGlobal(t, f, value)
         \/ \E r \in Resellers : Scan(t, r)
         \/ ValidateOwn(t) \/ WriteOwn(t) \/ WriteGlobal(t) \/ SameGlobal(t)
         \/ Clear(t) \/ SameOwn(t) \/ ScanEnds(t)
    \/ \E r \in Resellers : Reset(r)

Spec == Init /\ [][Next]_vars

-------------------------------------------------------------------------------
(* Saves overlap and overwrite each other's fields, yet no stored value has *)
(* a minimum above its maximum: each is written whole, as it was validated. *)
StoredRangesValid == Consistent(global) /\ \A r \in Resellers : Consistent(own[r])

ShutOut == {r \in Resellers : \A gb \in Values : ~AllowedGb(Merge(global, own[r]), gb)}

(* A reseller whom check_gb allows no volume any more ("contact the admin") *)
(* is one the admin was told of, unless a global save came between the      *)
(* validation of the reseller's limits and their write.                     *)
ConflictsAreExplained ==
    [][\A r \in Resellers :
         r \in ShutOut' \ ShutOut
         => \/ r \in warned'
            \/ \E t \in Tasks : WriteOwn(t) /\ session[t].reseller = r /\ session[t].overtaken]_vars
===============================================================================
