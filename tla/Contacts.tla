------------------------------ MODULE Contacts ------------------------------
(***************************************************************************)
(* The contact rows of one company (company_contacts) and everybody who    *)
(* writes them: the member's profile (src/modules/auth), the administrator *)
(* (src/modules/companies) and a visitor who registers the company anew.   *)
(*                                                                         *)
(* A row has a type, a value and perhaps a person's name; nothing in the   *)
(* database makes rows unique, and queries return them in no order.  A     *)
(* transaction deletes the rows its statements see, waits for rows that    *)
(* another one is deleting, and never sees what the other one adds: two    *)
(* that overlap both keep what they add, unless both update the company's  *)
(* own row first, which makes the second wait.                             *)
(*                                                                         *)
(* Of the types, phone stands for tel and phone, person for                *)
(* contact_person; the other plain types behave as address does.           *)
(***************************************************************************)
EXTENDS Naturals, FiniteSets, Sequences

CONSTANTS
  Requests,   \* handler calls in progress
  Values,     \* what a row can say
  Names,      \* persons
  None,       \* no name
  Lists,      \* the lists of rows that an administrator may send
  MaxRows,    \* bound: rows of the company
  MaxCalls    \* bound: calls in all

NoneAssumption  == None \notin Names
BoundAssumption == MaxRows \in Nat /\ MaxRows >= 4 /\ MaxCalls \in Nat

VARIABLES
  rows,   \* the rows of the company
  req,    \* the requests
  calls,  \* calls so far
  raced   \* ghost: a call wrote after another one had written since it read

vars == <<rows, req, calls, raced>>

-----------------------------------------------------------------------------
Types == {"register", "email", "phone", "person", "address", "note"}
Field == [type: Types, value: Values, name: Names \cup {None}]
Row   == [id: 1..MaxRows, row: Field]

ListsAssumption == Lists \subseteq Seq(Field)

(* old: the rows the call deletes or renames; new: the rows it adds; name: *)
(* the person it saves; lock: it updates the company's row as well; late:  *)
(* another call has written since this one read.                           *)
Request == [kind: {"none", "save", "rename", "replace", "add", "register"},
            old: SUBSET (1..MaxRows), new: SUBSET Field, name: Names \cup {None},
            lock: BOOLEAN, late: BOOLEAN]
Idle == [kind |-> "none", old |-> {}, new |-> {}, name |-> None, lock |-> FALSE, late |-> FALSE]

Contact(t, v, n) == [type |-> t, value |-> v, name |-> n]
Stored      == {r.row : r \in rows}
IdsOf(types) == {r.id : r \in {s \in rows : s.row.type \in types}}
Named(types) == {r.name : r \in {s \in Stored : s.type \in types /\ s.name # None}}

(* A call begins its transaction; it waits for the lock of the company.    *)
Begins(r, call) ==
  /\ req[r] = Idle /\ calls < MaxCalls /\ calls' = calls + 1
  /\ call.lock => \A s \in Requests : ~req[s].lock
  /\ req' = [req EXCEPT ![r] = call]
  /\ UNCHANGED <<rows, raced>>

(* Any ids that are free, and that no call is about to delete, do.         *)
Added(fields, kept) ==
  LET taken == {r.id : r \in kept} \cup UNION {req[s].old : s \in Requests}
      free  == (1..MaxRows) \ taken
  IN /\ Cardinality(fields) <= Cardinality(free)
     /\ \E f \in [fields -> free] :
          /\ \A x, y \in fields : f[x] = f[y] => x = y
          /\ \A i \in free, x \in fields : i < f[x] => \E y \in fields : f[y] = i
          /\ rows' = kept \cup {[id |-> f[x], row |-> x] : x \in fields}

(* It commits: others that have read before write late.                    *)
Ends(r) ==
  req' = [s \in Requests |-> IF s = r \/ req[s] = Idle THEN
            (IF s = r THEN Idle ELSE req[s]) ELSE [req[s] EXCEPT !.late = TRUE]]
Commits(r) == raced' = (raced \/ req[r].late) /\ Ends(r) /\ UNCHANGED calls

-----------------------------------------------------------------------------
(* What readers make of the rows.  Where a query takes the first row of a  *)
(* type, it may be any of them.                                            *)

(* getPrimaryPhoneValueFromContactRows: phone before contact person.       *)
ValuesOf(type) == {s.value : s \in {f \in Stored : f.type = type}}
Phones == IF IdsOf({"phone"}) # {} THEN ValuesOf("phone") ELSE ValuesOf("person")

(* getPrimaryContactNameFromContactRows.                                   *)
PersonNames == {s.name : s \in {f \in Stored : f.type = "person"}}
OtherNames ==
  IF Named({"email"}) # {} THEN Named({"email"})
  ELSE IF Named({"phone"}) # {} THEN Named({"phone"})
  ELSE IF Named(Types) # {} THEN Named(Types) ELSE {None}
ContactNames ==
  (PersonNames \ {None}) \cup (IF PersonNames \subseteq {None} \/ None \in PersonNames
                                THEN OtherNames ELSE {})

-----------------------------------------------------------------------------
(* A company as it is registered (companyContactRowsFromRegisterDto).      *)
Registration(mail, email, phone, person, address, notes) ==
  {Contact("register", mail, None), Contact("email", email, None),
   Contact("person", phone, person), Contact("address", address, None)}
  \cup {Contact("note", n, None) : n \in notes}

Init ==
  /\ \E v \in Values, n \in Names :
       \E f \in {Registration(v, v, v, n, v, {})} :
         rows = {[id |-> i, row |-> CHOOSE x \in f :
                    x.type = <<"register", "email", "person", "address">>[i]] : i \in 1..4}
  /\ req = [r \in Requests |-> Idle] /\ calls = 0 /\ raced = FALSE

(* saveCompanyProfile.  A row it writes takes the name that was sent, or   *)
(* else that of any row which has one; saving a phone replaces the rows of *)
(* both types that can show one.                                           *)
NameSent(name)     == {name}
NameResolved(name) ==
  IF name # None THEN {name} ELSE IF Named(Types) = {} THEN {None} ELSE Named(Types)

PersonOnly(types) == types
Replaces(types)   == types \cup (IF "person" \in types THEN {"phone"} ELSE {})

BeginSave(r) ==
  \E types \in (SUBSET {"person", "address"}) \ {{}}, v \in Values,
     sent \in Names \cup {None}, lock \in BOOLEAN :
    \E name \in NameResolved(sent) :
      Begins(r, [Idle EXCEPT !.kind = "save", !.old = IdsOf(Replaces(types)),
                             !.new = {Contact(t, v, name) : t \in types},
                             !.name = name, !.lock = lock])

(* A name without any other contact renames every row.                     *)
BeginRename(r) ==
  \E n \in Names, lock \in BOOLEAN :
    Begins(r, [Idle EXCEPT !.kind = "rename", !.old = IdsOf(Types),
                           !.name = n, !.lock = lock])

RenameCommit(r) ==
  /\ req[r].kind = "rename"
  /\ rows' = {IF x.id \in req[r].old THEN [x EXCEPT !.row.name = req[r].name] ELSE x : x \in rows}
  /\ Commits(r)

(* normalizeAdminContactRows and addCompanyContacts drop what a list says  *)
(* twice; the first keeps the first name there is.                         *)
Same(f, g) == f.type = g.type /\ f.value = g.value
FirstOnly(list) ==
  {list[i] : i \in {j \in 1..Len(list) : \A k \in 1..(j - 1) : ~Same(list[k], list[j])}}
FirstName(list, f) ==
  LET named == {i \in 1..Len(list) : Same(list[i], f) /\ list[i].name # None} IN
  IF named = {} THEN None
  ELSE list[CHOOSE i \in named : \A j \in named : i <= j].name
Normalized(list) == {[f EXCEPT !.name = FirstName(list, f)] : f \in FirstOnly(list)}

(* applyCompanyNotePatch, after the rows were replaced: the note is taken  *)
(* away, or replaced.                                                      *)
Patched(fields, note) ==
  {f \in fields : f.type # "note"} \cup {Contact("note", v, None) : v \in note}

(* adminUpdateCompany replaces all rows, the note, or both.                *)
BeginReplace(r) ==
  \E lock \in BOOLEAN :
    \/ \E list \in Lists \ {<<>>} :
         Begins(r, [Idle EXCEPT !.kind = "replace", !.old = IdsOf(Types),
                                !.new = Normalized(list), !.lock = lock])
    \/ \E list \in Lists \ {<<>>}, note \in {{}} \cup {{v} : v \in Values} :
         Begins(r, [Idle EXCEPT !.kind = "replace", !.old = IdsOf(Types),
                                !.new = Patched(Normalized(list), note), !.lock = lock])
    \/ \E note \in {{}} \cup {{v} : v \in Values} :
         Begins(r, [Idle EXCEPT !.kind = "replace", !.old = IdsOf({"note"}),
                                !.new = Patched({}, note), !.lock = lock])

(* register, of a company that was turned down or deleted.                 *)
BeginRegister(r) ==
  \E v, w \in Values, n \in Names, notes \in {{}} \cup {{x} : x \in Values} :
    Begins(r, [Idle EXCEPT !.kind = "register", !.old = IdsOf(Types),
                           !.new = Registration(v, w, w, n, w, notes), !.lock = TRUE])

(* The rows that are still there go, the new ones come.                    *)
ReplaceCommit(r) ==
  /\ req[r].kind \in {"save", "replace", "register"}
  /\ Added(req[r].new, {x \in rows : x.id \notin req[r].old})
  /\ Commits(r)

(* addCompanyContacts reads which of the rows there are ...                *)
AllOf(list)      == FirstOnly(list)
MissingOf(list)  == {f \in FirstOnly(list) : \A s \in Stored : ~Same(s, f)}

BeginAdd(r) ==
  \E list \in Lists \ {<<>>} :
    Begins(r, [Idle EXCEPT !.kind = "add", !.new = MissingOf(list)])

(* ... and adds the others.                                                *)
AddCommit(r) ==
  /\ req[r].kind = "add"
  /\ Added(req[r].new, rows)
  /\ Commits(r)

Fails(r) ==
  /\ req[r] # Idle
  /\ req' = [req EXCEPT ![r] = Idle]
  /\ UNCHANGED <<rows, calls, raced>>

Next ==
  \E r \in Requests :
    \/ BeginSave(r) \/ BeginRename(r) \/ BeginReplace(r) \/ BeginRegister(r) \/ BeginAdd(r)
    \/ ReplaceCommit(r) \/ RenameCommit(r) \/ AddCommit(r) \/ Fails(r)

Spec == Init /\ [][Next]_vars

-----------------------------------------------------------------------------
TypeOK ==
  /\ rows \subseteq Row /\ \A x, y \in rows : x.id = y.id => x = y
  /\ req \in [Requests -> Request]
  /\ calls \in 0..MaxCalls /\ raced \in BOOLEAN

(* "Duplicates for the same company + type + value are skipped": no two    *)
(* rows say the same, unless calls overlapped.                             *)
NoDuplicates == raced \/ \A x, y \in rows : Same(x.row, y.row) => x = y

(* A member sees what they save: after a save that no other write got      *)
(* ahead of, a phone or an address is shown as it was saved, whatever rows *)
(* an administrator had added before ...                                   *)
SavingShows(r) ==
  rows' # rows => \A f \in req[r].new :
    IF f.type = "person" THEN Phones' = {f.value} ELSE ValuesOf("address")' = {f.value}

(* ... and the name of the contact person is not lost with it.             *)
SavingKeepsName == None \notin ContactNames => None \notin ContactNames'

Saving ==
  \A r \in Requests :
    req[r].kind = "save" /\ req'[r] = Idle /\ ~req[r].late => SavingShows(r) /\ SavingKeepsName

SavedIsShown == [][Saving]_vars
=============================================================================
