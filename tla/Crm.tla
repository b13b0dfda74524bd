-------------------------------- MODULE Crm --------------------------------
(***************************************************************************)
(* The crm_ghl server (servers/crm_ghl/): the mapper that finds the field  *)
(* a name means, and the client in memory with its contacts and            *)
(* opportunities.  No tool of the server uses the mapper, and none updates *)
(* or gets a contact.                                                      *)
(***************************************************************************)
EXTENDS Integers, FiniteSets, Sequences, SequencesExt, FiniteSetsExt

CONSTANTS
  Fields,       (* GHL fields: records of id, name and key                 *)
  Extras,       (* the further aliases a field is registered with          *)
  NameForm,     (* a name or an alias in lower case, "_" for every space   *)
  KeyForm,      (* a key in lower case, its spaces kept                    *)
  AskedForm,    (* a reference in lower case, without the blanks around    *)
                (* it, "_" for the spaces left                             *)
  Within,       (* <<a, b>>: the string a is part of b                     *)
  Dicts,        (* the input of resolve_dict: sequences of <<name, value>> *)
  People,       (* contacts as they are entered                            *)
  Matches,      (* <<query, person>>: it is in the first name or the email *)
  Limits, MaxLimit,  (* limits that are asked for, and the most one gets   *)
  MaxFields, MaxCreated   (* bounds: registrations, contacts and deals     *)

VARIABLES
  fields,    (* GHLFieldMapper._fields, by id                              *)
  aliases,   (* _aliases: a dict keeps the order its keys came in          *)
  log,       (* history: the registrations                                 *)
  resolved,  (* the last input and answer of resolve_dict, since a change  *)
             (* of the mapper                                              *)
  contacts,  (* MockGHLClient._contacts                                    *)
  deals,     (* _opportunities                                             *)
  counter,   (* _counter                                                   *)
  found      (* the last answer of search_contacts                         *)

mapping == <<fields, aliases, log, resolved>>
client == <<contacts, deals, counter, found>>
vars == <<fields, aliases, log, resolved, contacts, deals, counter, found>>

NoAnswer == [given |-> <<>>, answer |-> <<>>]

Init ==
  /\ fields = <<>> /\ aliases = <<>> /\ log = <<>>
  /\ resolved = NoAnswer
  /\ contacts = <<>> /\ deals = <<>> /\ counter = 0 /\ found = <<>>

\* A dict entry is replaced where it stands, or added at the end.
Put(dict, key, value) ==
  [k \in DOMAIN dict \cup {key} |-> IF k = key THEN value ELSE dict[k]]
PutAlias(table, alias, id) ==
  IF \E i \in DOMAIN table : table[i].alias = alias
  THEN [i \in DOMAIN table |-> IF table[i].alias = alias THEN [table[i] EXCEPT !.id = id] ELSE table[i]]
  ELSE Append(table, [alias |-> alias, id |-> id])

\* configure(): another mapper or another client, new ones.
ConfigureMapper ==
  /\ fields' = <<>> /\ aliases' = <<>> /\ log' = <<>>
  /\ resolved' = NoAnswer /\ UNCHANGED client

ConfigureClient ==
  contacts' = <<>> /\ deals' = <<>> /\ counter' = 0 /\ UNCHANGED <<mapping, found>>

-----------------------------------------------------------------------------
(* GHLFieldMapper                                                          *)

\* What a registration claims: the name of the field, its key, its aliases.
Claims(f, extra) ==
  <<NameForm[f.name], KeyForm[f.key]>> \o [i \in DOMAIN extra |-> NameForm[extra[i]]]

RegisterField(f, extra) ==
  /\ Len(log) < MaxFields
  /\ fields' = Put(fields, f.id, f)
  /\ aliases' = FoldLeft(LAMBDA table, alias : PutAlias(table, alias, f.id), aliases, Claims(f, extra))
  /\ log' = Append(log, [id |-> f.id, claims |-> ToSet(Claims(f, extra))])
  /\ resolved' = NoAnswer /\ UNCHANGED client

Similar(a, b) == <<a, b>> \in Within \/ <<b, a>> \in Within

\* Mutant: the first alias that is similar, with no look at the whole name first.
ResolveSimilar(ref) ==
  LET like == {i \in DOMAIN aliases : Similar(AskedForm[ref], aliases[i].alias)}
  IN  IF like = {} THEN {} ELSE {fields[aliases[Min(like)].id]}

\* The field that a name means, if any: by an alias that is the name, or else by
\* the first one that contains it or is contained in it.
Resolve(ref) ==
  LET own == {i \in DOMAIN aliases : aliases[i].alias = AskedForm[ref]}
      like == {i \in DOMAIN aliases : Similar(AskedForm[ref], aliases[i].alias)}
  IN  IF own # {} THEN {fields[aliases[i].id] : i \in own}
      ELSE IF like # {} THEN {fields[aliases[Min(like)].id]} ELSE {}

\* The key a value is filed under.
KeyOf(name) == IF Resolve(name) = {} THEN name ELSE (CHOOSE f \in Resolve(name) : TRUE).key

ResolveDict(given) ==
  /\ resolved' = [given |-> given,
       answer |-> FoldLeft(LAMBDA dict, pair : Put(dict, KeyOf(pair[1]), pair[2]), <<>>, given)]
  /\ UNCHANGED <<fields, aliases, log, client>>

-----------------------------------------------------------------------------
(* MockGHLClient                                                           *)

Created == Len(contacts) + Len(deals)

\* Contacts and opportunities share the counter.
NewId == counter + 1

CreateContact(person) ==
  /\ Created < MaxCreated
  /\ counter' = NewId
  /\ contacts' = Append(contacts, [id |-> NewId, person |-> person])
  /\ UNCHANGED <<mapping, deals, found>>

\* An opportunity may name a contact that does not exist.
CreateOpportunity(contact) ==
  /\ Created < MaxCreated
  /\ counter' = NewId
  /\ deals' = Append(deals, [id |-> NewId, contact |-> contact])
  /\ UNCHANGED <<mapping, contacts, found>>

\* A contact that is not there is an error.
UpdateContact(i, person) ==
  /\ i \in DOMAIN contacts
  /\ contacts' = [contacts EXCEPT ![i].person = person]
  /\ UNCHANGED <<mapping, deals, counter, found>>

\* The contacts in the order they came; a negative limit leaves out the last.
Found(query, limit) ==
  LET all == SelectSeq(contacts, LAMBDA c : <<query, c.person>> \in Matches)
  IN  SubSeq(all, 1, IF limit < 0 THEN Max({0, Len(all) + limit}) ELSE Min({limit, Len(all)}))

SearchContacts(query, limit) ==
  /\ found' = Found(query, Min({limit, MaxLimit}))
  /\ UNCHANGED <<mapping, contacts, deals, counter>>

MapperNext ==
  \/ ConfigureMapper
  \/ \E f \in Fields, extra \in Extras : RegisterField(f, extra)
  \/ \E given \in Dicts : ResolveDict(given)

ClientNext ==
  \/ ConfigureClient
  \/ \E p \in People : CreateContact(p)
  \/ \E i \in 1 .. MaxCreated : CreateOpportunity(i)
  \/ \E i \in 1 .. MaxCreated, p \in People : UpdateContact(i, p)
  \/ \E m \in Matches, limit \in Limits : SearchContacts(m[1], limit)

Next == MapperNext \/ ClientNext

Spec == Init /\ [][Next]_vars

-----------------------------------------------------------------------------
(* Properties                                                              *)

\* What was claimed, and the field that claimed it last.
Claimants(alias) == {i \in DOMAIN log : alias \in log[i].claims}
Claimed == UNION {log[i].claims : i \in DOMAIN log}
Owner(alias) == fields[log[Max(Claimants(alias))].id]

\* Where a value belongs: to the owner of the name as it is asked for; if nobody
\* claimed that, to the owner of something similar; and else under its own name.
Goals(name) ==
  LET like == {alias \in Claimed : Similar(AskedForm[name], alias)}
  IN  IF AskedForm[name] \in Claimed THEN {Owner(AskedForm[name]).key}
      ELSE IF like # {} THEN {Owner(alias).key : alias \in like} ELSE {name}

\* Every value arrives where it belongs, however fields were registered anew,
\* took over each other's names or resemble each other; it gives way only to a
\* value that comes later for the same key.  A field whose name ends in a blank,
\* or whose key has a space, is claimed in a form that nobody can ask for: it is
\* found only as something similar.  (register_field, resolve, resolve_dict)
ValuesArrive ==
  LET given == resolved.given IN
  \A i \in DOMAIN given :
    \E key \in Goals(given[i][1]) :
      /\ key \in DOMAIN resolved.answer
      /\ resolved.answer[key] \in {given[j][2] : j \in i .. Len(given)}
=============================================================================
