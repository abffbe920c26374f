---------------------------- MODULE ResellersProofs ----------------------------
(***************************************************************************)
(* What Resellers guarantees for any number of people, of forms and of     *)
(* resellers, and however often the ids of deleted ones come back.         *)
(*                                                                         *)
(* A form that outlives its reseller writes records for whoever has its id *)
(* by then.  The inductive invariant says that every other record is for   *)
(* the reseller that is there, and that the two places that say who a      *)
(* reseller's primary account is agree, person by person.                  *)
(***************************************************************************)
EXTENDS Resellers, TLAPS

USE ResellersAssumption DEF ResellersAssumption, Ids

(* The primary accounts are those of the column. *)
PrimaryInv ==
    /\ \A p \in People : account[p] # NoRow /\ account[p].primary
          => account[p].reseller \in Live /\ telegram[account[p].reseller] = p
    /\ \A r \in Live : /\ telegram[r] \in People
                       /\ account[telegram[r]].reseller = r /\ account[telegram[r]].primary

(* A record that was not late is for the one who has the id. *)
MeantFor(record, r) == record.late \/ (r \in Live /\ record.for = born[r])
RecordInv ==
    /\ \A p \in People : account[p] # NoRow => MeantFor(account[p], account[p].reseller)
    /\ \A r \in Ids : message[r] # NoText => MeantFor(message[r], r)

(* Who is there was added once, as one of those that were counted. *)
BornInv == \A r \in Ids : born[r] <= count /\ (r \in Live => born[r] >= 1)

(* A form and an update on its way are for somebody that was added. *)
FormInv == \A t \in Tasks : form[t].at # "idle" => form[t].reseller \in Ids /\ form[t].for >= 1
ChatInv == \A p \in People :
              /\ chat[p].at # "none" => chat[p].reseller \in Ids
              /\ chat[p].for <= count

IInv == TypeOK /\ PrimaryInv /\ RecordInv /\ BornInv /\ FormInv /\ ChatInv /\ ToldOwnMessage

-------------------------------------------------------------------------------
LEMMA NoFormType == NoForm \in Form /\ NoForm.at = "idle"
BY DEF NoForm, Form, Statuses

LEMMA NoChatType == NoChat \in Chat /\ NoChat.at = "none" /\ NoChat.for = 0
<1>1. NoText \in Text \cup {NoText} /\ 0 \in 0 .. MaxBorn
  OBVIOUS
<1> QED BY <1>1 DEF NoChat, Chat, Statuses

LEMMA InitInv == Init => IInv
<1> SUFFICES ASSUME Init PROVE IInv OBVIOUS
<1> USE DEF Init
<1>1. TypeOK
  <2>1. NoForm \in Form /\ NoChat \in Chat
    BY NoFormType, NoChatType
  <2>2. 0 \in 0 .. MaxBorn
    OBVIOUS
  <2>3. form \in [Tasks -> Form] /\ chat \in [People -> Chat]
    BY <2>1
  <2>4. message \in [Ids -> Text \cup {NoText}] /\ account \in [People -> Row \cup {NoRow}]
    OBVIOUS
  <2> QED BY <2>2, <2>3, <2>4 DEF TypeOK, Statuses
<1>2. Live = {}
  BY DEF Live
<1>3. PrimaryInv /\ RecordInv /\ BornInv
  BY <1>2 DEF PrimaryInv, RecordInv, BornInv
<1>4. FormInv /\ ChatInv /\ ToldOwnMessage
  BY DEF FormInv, ChatInv, ToldOwnMessage, NoForm, NoChat
<1> QED BY <1>1, <1>3, <1>4 DEF IInv

-------------------------------------------------------------------------------
(* Who is there, with which records, stays the same. *)
LEMMA RecordsStay ==
    ASSUME IInv, SameReseller, UNCHANGED <<account, message>>
    PROVE  PrimaryInv' /\ RecordInv' /\ BornInv'
<1>1. Live' = Live
  BY DEF SameReseller, Live
<1> QED BY <1>1 DEF IInv, SameReseller, PrimaryInv, RecordInv, MeantFor, BornInv

(* No update moves on. *)
LEMMA ChatStays ==
    ASSUME IInv, UNCHANGED <<chat, born, count>>
    PROVE  ChatInv' /\ ToldOwnMessage'
BY DEF IInv, ChatInv, ToldOwnMessage

(* A form goes on to f. *)
LEMMA FormGoesOn ==
    ASSUME IInv, NEW t \in Tasks, NEW f \in Form, form' = [form EXCEPT ![t] = f],
           f.at # "idle" => f.reseller \in Ids /\ f.for >= 1
    PROVE  form' \in [Tasks -> Form] /\ FormInv'
<1>1. /\ form' \in [Tasks -> Form]
      /\ form'[t] = f /\ \A u \in Tasks \ {t} : form'[u] = form[u]
  BY DEF IInv, TypeOK
<1> QED BY <1>1 DEF IInv, FormInv

(* Only a form goes on. *)
LEMMA FormInvariant ==
    ASSUME IInv, NEW t \in Tasks, NEW f \in Form, form' = [form EXCEPT ![t] = f],
           f.at # "idle" => f.reseller \in Ids /\ f.for >= 1,
           SameReseller, UNCHANGED <<account, message, maintenance, chat>>
    PROVE  IInv'
<1>1. form' \in [Tasks -> Form] /\ FormInv'
  BY FormGoesOn
<1>2. TypeOK'
  BY <1>1 DEF IInv, TypeOK, SameReseller
<1>3. PrimaryInv' /\ RecordInv' /\ BornInv'
  BY RecordsStay
<1>4. ChatInv' /\ ToldOwnMessage'
  BY ChatStays DEF SameReseller
<1> QED BY <1>1, <1>2, <1>3, <1>4 DEF IInv

LEMMA BeginAddInv == ASSUME IInv, NEW t \in Tasks, NEW r \in Ids, BeginAdd(t, r) PROVE IInv'
<1> DEFINE f == [NoForm EXCEPT !.at = "add", !.reseller = r, !.for = born[r]]
<1>1. born[r] \in 0 .. MaxBorn /\ born[r] >= 1
  BY DEF IInv, TypeOK, BeginAdd
<1>2. f \in Form /\ f.reseller = r /\ f.for = born[r]
  BY <1>1 DEF Form, NoForm, Statuses
<1>3. form' = [form EXCEPT ![t] = f] /\ SameReseller /\ UNCHANGED <<account, message, maintenance, chat>>
  BY DEF BeginAdd
<1> HIDE DEF f
<1> QED BY <1>1, <1>2, <1>3, FormInvariant

LEMMA AskMessageInv == ASSUME IInv, NEW t \in Tasks, NEW r \in Ids, AskMessage(t, r) PROVE IInv'
<1> DEFINE f == [NoForm EXCEPT !.at = "message", !.reseller = r, !.for = born[r]]
<1>1. born[r] \in 0 .. MaxBorn /\ born[r] >= 1
  BY DEF IInv, TypeOK, BornInv, AskMessage
<1>2. f \in Form /\ f.reseller = r /\ f.for = born[r]
  BY <1>1 DEF Form, NoForm, Statuses
<1>3. form' = [form EXCEPT ![t] = f] /\ SameReseller /\ UNCHANGED <<account, message, maintenance, chat>>
  BY DEF AskMessage
<1> HIDE DEF f
<1> QED BY <1>1, <1>2, <1>3, FormInvariant

(* The status of somebody who is there is one of the three. *)
LEMMA StatusOfLive ==
    ASSUME TypeOK, NEW r \in Live
    PROVE  r \in Ids /\ status[r] \in Statuses
BY DEF TypeOK, Live

LEMMA ReadForInv ==
    ASSUME IInv, NEW t \in Tasks, NEW r \in Ids, NEW to \in Statuses, ReadFor(t, r, to) PROVE IInv'
<1> DEFINE f == [NoForm EXCEPT !.at = "write", !.reseller = r,
                  !.for = born[r], !.to = to, !.seen = status[r]]
<1>1. born[r] \in 0 .. MaxBorn /\ born[r] >= 1 /\ status[r] \in Statuses
  BY StatusOfLive DEF IInv, TypeOK, BornInv, ReadFor
<1>2. f \in Form /\ f.reseller = r /\ f.for = born[r]
  BY <1>1 DEF Form, NoForm, Statuses
<1>3. form' = [form EXCEPT ![t] = f] /\ SameReseller /\ UNCHANGED <<account, message, maintenance, chat>>
  BY DEF ReadFor
<1> HIDE DEF f
<1> QED BY <1>1, <1>2, <1>3, FormInvariant

LEMMA ReadForMessageInv == ASSUME IInv, NEW t \in Tasks, ReadForMessage(t) PROVE IInv'
<1> DEFINE old == form[t]
           f == IF old.reseller \notin Live THEN NoForm
                ELSE [old EXCEPT !.at = "write", !.told = TRUE, !.seen = status[old.reseller]]
<1>1. old \in Form /\ old.at = "message" /\ old.reseller \in Ids /\ old.for >= 1
  BY DEF IInv, TypeOK, FormInv, ReadForMessage
<1>2. f \in Form /\ (f.at # "idle" => f.reseller \in Ids /\ f.for >= 1)
  <2>1. CASE old.reseller \notin Live
    BY <2>1, NoFormType
  <2>2. CASE old.reseller \in Live
    <3>1. status[old.reseller] \in Statuses
      BY <2>2, StatusOfLive DEF IInv
    <3> QED BY <1>1, <2>2, <3>1 DEF Form
  <2> QED BY <2>1, <2>2
<1>3. form' = [form EXCEPT ![t] = f] /\ SameReseller /\ UNCHANGED <<account, message, maintenance, chat>>
  BY DEF ReadForMessage
<1> HIDE DEF f
<1> QED BY <1>2, <1>3, FormInvariant

-------------------------------------------------------------------------------
(* A record a form writes is for the reseller that is there or is late. *)
LEMMA WrittenIsMeant ==
    ASSUME NEW r \in Ids, NEW d, ~IsLate(r, d)
    PROVE  r \in Live /\ d = born[r]
BY DEF IsLate, Live

LEMMA CommitAddInv ==
    ASSUME IInv, NEW t \in Tasks, NEW p \in People, CommitAdd(t, p) PROVE IInv'
<1> DEFINE f == form[t]
           row == [reseller |-> f.reseller, primary |-> FALSE,
                   for |-> f.for, late |-> IsLate(f.reseller, f.for)]
<1>1. f \in Form /\ f.reseller \in Ids /\ f.for \in 1 .. MaxBorn /\ account[p] = NoRow
  BY DEF IInv, TypeOK, FormInv, CommitAdd, Form
<1>2. row \in Row /\ ~row.primary /\ row.reseller = f.reseller /\ MeantFor(row, f.reseller)
  <2>1. IsLate(f.reseller, f.for) \in BOOLEAN
    BY DEF IsLate
  <2>2. row \in Row
    BY <1>1, <2>1 DEF Row
  <2>3. MeantFor(row, f.reseller)
    BY <1>1, WrittenIsMeant DEF MeantFor
  <2> QED BY <2>2, <2>3
<1>3. account' = [account EXCEPT ![p] = row] /\ SameReseller /\ UNCHANGED <<message, maintenance, chat>>
  BY DEF CommitAdd
<1>4. form' \in [Tasks -> Form] /\ FormInv'
  BY FormGoesOn, NoFormType DEF CommitAdd
<1> HIDE DEF row
<1>5. /\ account' \in [People -> Row \cup {NoRow}]
      /\ account'[p] = row /\ \A q \in People \ {p} : account'[q] = account[q]
  BY <1>2, <1>3 DEF IInv, TypeOK
<1>6. TypeOK'
  BY <1>3, <1>4, <1>5 DEF IInv, TypeOK, SameReseller
<1>7. Live' = Live
  BY <1>3 DEF SameReseller, Live
<1>8. PrimaryInv'
  <2>1. \A r \in Live : telegram[r] # p
    BY <1>1 DEF IInv, PrimaryInv, NoRow, Live
  <2> QED BY <1>2, <1>3, <1>5, <1>7, <2>1 DEF IInv, PrimaryInv, SameReseller
<1>9. RecordInv' /\ BornInv'
  BY <1>2, <1>3, <1>5, <1>7 DEF IInv, RecordInv, BornInv, MeantFor, SameReseller
<1>10. ChatInv' /\ ToldOwnMessage'
  BY <1>3, ChatStays DEF SameReseller
<1> QED BY <1>4, <1>6, <1>8, <1>9, <1>10 DEF IInv

(* A change of status makes nobody appear or disappear, and leaves a       *)
(* message that is meant for the one that has the id.                      *)
LEMMA WriteStatusInv == ASSUME IInv, NEW t \in Tasks, WriteStatus(t) PROVE IInv'
<1> DEFINE f == form[t]
           r == f.reseller
<1>1. f \in Form /\ r \in Ids /\ f.for \in 1 .. MaxBorn /\ f.to \in Statuses
  BY DEF IInv, TypeOK, FormInv, WriteStatus, Form
<1>2. UNCHANGED <<telegram, born, count, account, maintenance, chat>>
  BY DEF WriteStatus
<1>3. form' \in [Tasks -> Form] /\ FormInv'
  BY FormGoesOn, NoFormType DEF WriteStatus
<1>4. Written(f) \in Text \cup {NoText} /\ (Written(f) # NoText => MeantFor(Written(f), r))
  <2>1. IsLate(r, f.for) \in BOOLEAN
    BY DEF IsLate
  <2>2. CASE f.to = "archived"
    BY <1>1, <2>2 DEF Written, IInv, TypeOK, RecordInv
  <2>3. CASE f.to # "archived" /\ f.told
    BY <1>1, <2>1, <2>3, WrittenIsMeant DEF Written, Text, MeantFor
  <2>4. CASE f.to # "archived" /\ ~f.told
    BY <2>4 DEF Written
  <2> QED BY <2>2, <2>3, <2>4
<1>5. /\ message' \in [Ids -> Text \cup {NoText}]
      /\ \A id \in Ids : message'[id] = message[id] \/ (id = r /\ message'[id] = Written(f))
  BY <1>1, <1>4 DEF IInv, TypeOK, WriteStatus
<1>6. status' \in [Ids -> Statuses \cup {"none"}] /\ Live' = Live
  <2>1. CASE UNCHANGED status
    BY <2>1 DEF IInv, TypeOK, Live
  <2>2. CASE status' = [status EXCEPT ![r] = f.to] /\ r \in Live
    BY <1>1, <2>2 DEF IInv, TypeOK, Live, Statuses
  <2> QED BY <2>1, <2>2 DEF WriteStatus
<1>7. TypeOK'
  BY <1>2, <1>3, <1>5, <1>6 DEF IInv, TypeOK
<1>8. PrimaryInv' /\ BornInv'
  BY <1>2, <1>6 DEF IInv, PrimaryInv, BornInv
<1>9. RecordInv'
  BY <1>2, <1>4, <1>5, <1>6 DEF IInv, RecordInv, MeantFor
<1>10. ChatInv' /\ ToldOwnMessage'
  BY <1>2, ChatStays
<1> QED BY <1>3, <1>7, <1>8, <1>9, <1>10 DEF IInv

-------------------------------------------------------------------------------
(* A new reseller has an id that nobody has, and whatever was written for  *)
(* that id is late.                                                        *)
LEMMA AddInv == ASSUME IInv, NEW p \in People, NEW r \in Ids, Add(p, r) PROVE IInv'
<1> DEFINE row == FirstRow(r)
<1>1. count \in Nat /\ count + 1 \in 1 .. MaxBorn
  BY DEF IInv, TypeOK, Add
<1>2. r \notin Live /\ status[r] = "none"
  BY DEF Add, NextId, Live
<1>3. row \in Row /\ row.primary /\ row.reseller = r /\ row.for = count + 1
  BY <1>1 DEF FirstRow, Row
<1>4. account' = [account EXCEPT ![p] = row] /\ account[p] = NoRow
  BY DEF Add
<1> HIDE DEF row
<1>5. /\ account' \in [People -> Row \cup {NoRow}]
      /\ account'[p] = row /\ \A q \in People \ {p} : account'[q] = account[q]
  BY <1>3, <1>4 DEF IInv, TypeOK
<1>6. /\ status' \in [Ids -> Statuses \cup {"none"}] /\ Live' = Live \cup {r}
      /\ telegram' \in [Ids -> People \cup {Nobody}] /\ telegram'[r] = p
      /\ born' \in [Ids -> 0 .. MaxBorn] /\ born'[r] = count + 1
      /\ \A id \in Ids \ {r} : telegram'[id] = telegram[id] /\ born'[id] = born[id]
  BY <1>1 DEF IInv, TypeOK, Add, Live, Statuses
<1>7. count' = count + 1 /\ UNCHANGED <<message, form, maintenance, chat>>
  BY DEF Add
<1>8. TypeOK'
  BY <1>1, <1>5, <1>6, <1>7 DEF IInv, TypeOK
<1>9. PrimaryInv'
  <2>1. \A id \in Live : id \in Ids /\ id # r /\ telegram[id] # p
    BY <1>2, <1>4 DEF IInv, PrimaryInv, NoRow, Live
  <2> QED BY <1>2, <1>3, <1>5, <1>6, <2>1 DEF IInv, PrimaryInv
<1>10. RecordInv'
  <2>1. ASSUME NEW q \in People, account'[q] # NoRow
        PROVE  MeantFor(account[q], account[q].reseller)'
    <3>1. CASE q = p
      BY <1>3, <1>5, <1>6, <3>1 DEF MeantFor
    <3>2. CASE q # p
      <4>1. MeantFor(account[q], account[q].reseller) /\ account'[q] = account[q]
        BY <1>5, <2>1, <3>2 DEF IInv, RecordInv
      <4> QED BY <1>2, <1>6, <4>1 DEF MeantFor, Live
    <3> QED BY <3>1, <3>2
  <2>2. ASSUME NEW id \in Ids, message'[id] # NoText PROVE MeantFor(message[id], id)'
    <3>1. MeantFor(message[id], id) /\ message'[id] = message[id]
      BY <1>7, <2>2 DEF IInv, RecordInv
    <3> QED BY <1>2, <1>6, <3>1 DEF MeantFor
  <2> QED BY <2>1, <2>2 DEF RecordInv
<1>11. BornInv'
  <2>1. ASSUME NEW id \in Ids PROVE born'[id] <= count' /\ (id \in Live' => born'[id] >= 1)
    <3>1. CASE id = r
      BY <1>1, <1>6, <1>7, <3>1
    <3>2. CASE id # r
      <4>1. born[id] \in Nat /\ born[id] <= count /\ (id \in Live => born[id] >= 1)
        BY DEF IInv, TypeOK, BornInv
      <4> QED BY <1>1, <1>6, <1>7, <3>2, <4>1
    <3> QED BY <3>1, <3>2
  <2> QED BY <2>1 DEF BornInv
<1>12. FormInv'
  BY <1>7 DEF IInv, FormInv
<1>13. ChatInv' /\ ToldOwnMessage'
  <2>1. ASSUME NEW q \in People
        PROVE  /\ chat[q].at # "none" => chat[q].reseller \in Ids
               /\ chat[q].for \in Nat /\ chat[q].for < count + 1
    BY <1>1 DEF IInv, TypeOK, ChatInv, Chat
  <2>2. ChatInv'
    BY <1>1, <1>7, <2>1 DEF ChatInv
  <2>3. ToldOwnMessage'
    <3> SUFFICES ASSUME NEW q \in People, chat[q].at = "told", chat[q].text # NoText
                 PROVE  \/ chat[q].text.for = chat[q].for \/ chat[q].text.late
                        \/ born'[chat[q].reseller] # chat[q].for
      BY <1>7 DEF ToldOwnMessage
    <3>1. \/ chat[q].text.for = chat[q].for \/ chat[q].text.late
          \/ born[chat[q].reseller] # chat[q].for
      BY DEF IInv, ToldOwnMessage
    <3> QED BY <1>1, <1>6, <2>1, <3>1
  <2> QED BY <2>2, <2>3
<1> QED BY <1>8, <1>9, <1>10, <1>11, <1>12, <1>13 DEF IInv

(* A deletion takes the records with it. *)
LEMMA DeleteInv == ASSUME IInv, NEW r \in Ids, Delete(r) PROVE IInv'
<1>1. UNCHANGED <<born, count, form, maintenance, chat>>
  BY DEF Delete
<1>2. /\ account' \in [People -> Row \cup {NoRow}]
      /\ \A p \in People : /\ account'[p] = NoRow \/ account'[p] = account[p]
                           /\ account[p].reseller = r => account'[p] = NoRow
                           /\ account[p].reseller # r => account'[p] = account[p]
  BY DEF Delete, WithoutAccounts, IInv, TypeOK
<1>3. /\ message' \in [Ids -> Text \cup {NoText}] /\ message'[r] = NoText
      /\ \A id \in Ids \ {r} : message'[id] = message[id]
  BY DEF Delete, WithoutMessage, IInv, TypeOK
<1>4. /\ status' \in [Ids -> Statuses \cup {"none"}] /\ Live' = Live \ {r}
      /\ telegram' \in [Ids -> People \cup {Nobody}]
      /\ \A id \in Ids \ {r} : telegram'[id] = telegram[id]
  BY DEF Delete, IInv, TypeOK, Live
<1>5. TypeOK'
  BY <1>1, <1>2, <1>3, <1>4 DEF IInv, TypeOK
<1>6. PrimaryInv'
  <2>1. ASSUME NEW p \in People, account'[p] # NoRow, account'[p].primary
        PROVE  account'[p].reseller \in Live' /\ telegram'[account'[p].reseller] = p
    <3>1. account'[p] = account[p] /\ account[p].reseller # r
      BY <1>2, <2>1
    <3>2. account[p].reseller \in Live /\ telegram[account[p].reseller] = p
      BY <2>1, <3>1 DEF IInv, PrimaryInv
    <3> QED BY <1>4, <3>1, <3>2 DEF Live
  <2>2. ASSUME NEW id \in Live'
        PROVE  /\ telegram'[id] \in People
               /\ account'[telegram'[id]].reseller = id /\ account'[telegram'[id]].primary
    <3>1. id \in Live /\ id \in Ids /\ id # r
      BY <1>4 DEF Live
    <3>2. /\ telegram[id] \in People
          /\ account[telegram[id]].reseller = id /\ account[telegram[id]].primary
      BY <3>1 DEF IInv, PrimaryInv
    <3> QED BY <1>2, <1>4, <3>1, <3>2
  <2> QED BY <2>1, <2>2 DEF PrimaryInv
<1>7. RecordInv'
  <2>1. ASSUME NEW p \in People, account'[p] # NoRow
        PROVE  MeantFor(account[p], account[p].reseller)'
    <3>1. account'[p] = account[p] /\ account[p].reseller # r
      BY <1>2, <2>1
    <3>2. MeantFor(account[p], account[p].reseller)
      BY <2>1, <3>1 DEF IInv, RecordInv
    <3> QED BY <1>1, <1>4, <3>1, <3>2 DEF MeantFor
  <2>2. ASSUME NEW id \in Ids, message'[id] # NoText PROVE MeantFor(message[id], id)'
    <3>1. message'[id] = message[id] /\ id # r
      BY <1>3, <2>2
    <3>2. MeantFor(message[id], id)
      BY <2>2, <3>1 DEF IInv, RecordInv
    <3> QED BY <1>1, <1>4, <3>1, <3>2 DEF MeantFor
  <2> QED BY <2>1, <2>2 DEF RecordInv
<1>8. BornInv' /\ FormInv'
  BY <1>1, <1>4 DEF IInv, BornInv, FormInv
<1>9. ChatInv' /\ ToldOwnMessage'
  BY <1>1, ChatStays
<1> QED BY <1>5, <1>6, <1>7, <1>8, <1>9 DEF IInv

-------------------------------------------------------------------------------
(* An update of p goes on to c. *)
LEMMA ChatGoesOn ==
    ASSUME IInv, NEW p \in People, NEW c \in Chat, chat' = [chat EXCEPT ![p] = c],
           c.at # "none" => c.reseller \in Ids, c.for <= count,
           c.at = "told" /\ c.text # NoText
             => c.text.for = c.for \/ c.text.late \/ born[c.reseller] # c.for,
           SameReseller, UNCHANGED <<account, message, form, maintenance>>
    PROVE  IInv'
<1>1. /\ chat' \in [People -> Chat]
      /\ chat'[p] = c /\ \A q \in People \ {p} : chat'[q] = chat[q]
  BY DEF IInv, TypeOK
<1>2. TypeOK'
  BY <1>1 DEF IInv, TypeOK, SameReseller
<1>3. PrimaryInv' /\ RecordInv' /\ BornInv'
  BY RecordsStay
<1>4. FormInv'
  BY DEF IInv, FormInv
<1>5. ChatInv' /\ ToldOwnMessage'
  BY <1>1 DEF IInv, ChatInv, ToldOwnMessage, SameReseller
<1> QED BY <1>2, <1>3, <1>4, <1>5 DEF IInv

LEMMA AuthenticateInv ==
    ASSUME IInv, NEW p \in People, NEW r \in Ids, Authenticate(p, r) PROVE IInv'
<1> DEFINE c == [NoChat EXCEPT !.at = "known", !.reseller = r, !.status = status[r], !.for = born[r]]
<1>1. r \in Live
  BY DEF Authenticate, Lookup, LookupByColumn
<1>2. status[r] \in Statuses /\ born[r] \in 0 .. MaxBorn /\ born[r] <= count
  BY <1>1, StatusOfLive DEF IInv, TypeOK, BornInv
<1>3. c \in Chat /\ c.at = "known" /\ c.reseller = r /\ c.for = born[r]
  BY <1>2, NoChatType DEF Chat, NoChat
<1>4. chat' = [chat EXCEPT ![p] = c] /\ SameReseller /\ UNCHANGED <<account, message, form, maintenance>>
  BY DEF Authenticate
<1> HIDE DEF c
<1> QED BY <1>2, <1>3, <1>4, ChatGoesOn

LEMMA TellOrPassInv == ASSUME IInv, NEW p \in People, TellOrPass(p) PROVE IInv'
<1> DEFINE old == chat[p]
           c == IF old.status = "active" THEN [old EXCEPT !.at = "open"]
                ELSE [old EXCEPT !.at = "told", !.text = message[old.reseller]]
<1>1. old \in Chat /\ old.at = "known" /\ old.reseller \in Ids /\ old.for <= count
  BY DEF IInv, TypeOK, ChatInv, TellOrPass
<1>2. message[old.reseller] \in Text \cup {NoText}
  BY <1>1 DEF IInv, TypeOK
<1>3. c \in Chat /\ c.reseller = old.reseller /\ c.for = old.for
  BY <1>1, <1>2 DEF Chat
<1>4. c.at = "told" /\ c.text # NoText
        => c.text.for = c.for \/ c.text.late \/ born[c.reseller] # c.for
  <2>1. c.at = "told" => c.text = message[old.reseller]
    BY <1>1, <1>2 DEF Chat
  <2> QED BY <1>1, <1>3, <2>1 DEF IInv, RecordInv, MeantFor
<1>5. chat' = [chat EXCEPT ![p] = c] /\ SameReseller /\ UNCHANGED <<account, message, form, maintenance>>
  BY DEF TellOrPass
<1> HIDE DEF c
<1> QED BY <1>1, <1>3, <1>4, <1>5, ChatGoesOn

LEMMA ServeInv == ASSUME IInv, NEW p \in People, Serve(p) PROVE IInv'
<1> DEFINE c == IF maintenance THEN NoChat ELSE [chat[p] EXCEPT !.at = "served"]
<1>1. /\ chat[p] \in Chat /\ chat[p].at = "open" /\ chat[p].reseller \in Ids
      /\ chat[p].for <= count /\ count \in Nat
  BY DEF IInv, TypeOK, ChatInv, Serve
<1>2. c \in Chat /\ c.at # "told" /\ (c.at # "none" => c.reseller \in Ids) /\ c.for <= count
  <2>1. CASE maintenance
    BY <1>1, <2>1, NoChatType
  <2>2. CASE ~maintenance
    BY <1>1, <2>2 DEF Chat
  <2> QED BY <2>1, <2>2
<1>3. chat' = [chat EXCEPT ![p] = c] /\ SameReseller /\ UNCHANGED <<account, message, form, maintenance>>
  BY DEF Serve
<1> HIDE DEF c
<1> QED BY <1>2, <1>3, ChatGoesOn

(* Neither the maintenance mode nor a step that changes nothing matters. *)
LEMMA OthersInv ==
    ASSUME IInv, maintenance' \in BOOLEAN, SameReseller, UNCHANGED <<account, message, form, chat>>
    PROVE  IInv'
<1>1. TypeOK'
  BY DEF IInv, TypeOK, SameReseller
<1>2. PrimaryInv' /\ RecordInv' /\ BornInv'
  BY RecordsStay
<1>3. FormInv'
  BY DEF IInv, FormInv
<1>4. ChatInv' /\ ToldOwnMessage'
  BY ChatStays DEF SameReseller
<1> QED BY <1>1, <1>2, <1>3, <1>4 DEF IInv

-------------------------------------------------------------------------------
LEMMA Invariance == Spec => []IInv
<1>1. IInv /\ [Next]_vars => IInv'
  <2> SUFFICES ASSUME IInv, [Next]_vars PROVE IInv' OBVIOUS
  <2>1. ASSUME NEW p \in People, TellOrPass(p) \/ Serve(p) PROVE IInv'
    BY <2>1, TellOrPassInv, ServeInv
  <2>2. ASSUME NEW p \in People, NEW t \in Tasks, CommitAdd(t, p) PROVE IInv'
    BY <2>2, CommitAddInv
  <2>3. ASSUME NEW p \in People, NEW r \in Ids, Add(p, r) \/ Authenticate(p, r) PROVE IInv'
    BY <2>3, AddInv, AuthenticateInv
  <2>4. ASSUME NEW t \in Tasks, ReadForMessage(t) \/ WriteStatus(t) PROVE IInv'
    BY <2>4, ReadForMessageInv, WriteStatusInv
  <2>5. ASSUME NEW t \in Tasks, NEW r \in Ids, BeginAdd(t, r) \/ AskMessage(t, r) PROVE IInv'
    BY <2>5, BeginAddInv, AskMessageInv
  <2>6. ASSUME NEW t \in Tasks, NEW r \in Ids, NEW to \in Statuses, ReadFor(t, r, to) PROVE IInv'
    BY <2>6, ReadForInv
  <2>7. ASSUME NEW r \in Ids, Delete(r) PROVE IInv'
    BY <2>7, DeleteInv
  <2>8. ASSUME NEW enabled \in BOOLEAN, SetMaintenance(enabled) PROVE IInv'
    BY <2>8, OthersInv DEF SetMaintenance
  <2>9. CASE UNCHANGED vars
    BY <2>9, OthersInv DEF vars, IInv, TypeOK, SameReseller
  <2> QED BY <2>1, <2>2, <2>3, <2>4, <2>5, <2>6, <2>7, <2>8, <2>9 DEF Next
<1> QED BY <1>1, InitInv, PTL DEF Spec

(* Every variable keeps its type: no form writes a record for no reseller. *)
THEOREM TypeCorrect == Spec => []TypeOK
BY Invariance, PTL DEF IInv

(* repositories.py:10-14: a reseller's column and its one primary account  *)
(* agree, however forms overlap deletions and ids come back.               *)
THEOREM LookupsCorrect == Spec => []LookupsAgree
<1>1. IInv => LookupsAgree
  <2> SUFFICES ASSUME IInv, NEW r \in Live
               PROVE  {p \in AccountsOf(r) : account[p].primary} = {telegram[r]}
    BY DEF LookupsAgree
  <2>1. r \in Ids /\ r # 0
    BY DEF Live
  <2>2. telegram[r] \in People /\ account[telegram[r]].reseller = r /\ account[telegram[r]].primary
    BY DEF IInv, PrimaryInv
  <2>3. ASSUME NEW p \in People, account[p].reseller = r, account[p].primary PROVE p = telegram[r]
    BY <2>1, <2>3 DEF IInv, PrimaryInv, NoRow
  <2> QED BY <2>2, <2>3 DEF AccountsOf
<1> QED BY <1>1, Invariance, PTL

(* repositories.py:59: who gets the id of a deleted reseller has none of    *)
(* its accounts or messages but those a form wrote after the deletion.     *)
THEOREM SuccessorIsNew == Spec => []NothingInherited
<1>1. IInv => NothingInherited
  <2> SUFFICES ASSUME IInv, NEW r \in Live
               PROVE  /\ \A p \in AccountsOf(r) : account[p].for = born[r] \/ account[p].late
                      /\ message[r] # NoText => message[r].for = born[r] \/ message[r].late
    BY DEF NothingInherited
  <2>1. r \in Ids /\ r # 0
    BY DEF Live
  <2>2. \A p \in AccountsOf(r) : p \in People /\ account[p] # NoRow /\ account[p].reseller = r
    BY <2>1 DEF AccountsOf, NoRow
  <2> QED BY <2>1, <2>2 DEF IInv, RecordInv, MeantFor
<1> QED BY <1>1, Invariance, PTL

(* disabled.py:20: the message somebody is told is not that of another who  *)
(* had the id before, unless it was written after that one's deletion, and  *)
(* not that of one who has it now, unless he was deleted meanwhile.         *)
THEOREM OwnMessage == Spec => []ToldOwnMessage
BY Invariance, PTL DEF IInv
===============================================================================
