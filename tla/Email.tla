------------------------------- MODULE Email -------------------------------
(***************************************************************************)
(* The email server (servers/email/): drafts from registered templates, and *)
(* mail sent through the client in memory, over SMTP or by Gmail.          *)
(*                                                                         *)
(* A text is a sequence of words; the word k of Keys stands for the        *)
(* placeholder {{k}}, also inside the value of another key.                *)
(***************************************************************************)
EXTENDS Naturals, FiniteSets, Sequences, SequencesExt

CONSTANTS
  Names, Keys,    (* names of templates; keys of their placeholders        *)
  Texts,          (* subjects and bodies                                   *)
  Variables,      (* the JSON given to draft_from_template, parsed: a      *)
                  (* sequence of <<key, value>>                            *)
  People,         (* mail addresses                                        *)
  MaxMails        (* bound: mails sent                                     *)

VARIABLES
  templates,  (* TemplateEngine._templates                                 *)
  draft,      (* the last answer of draft_from_template, and its input     *)
  mailer,     (* the client: "memory", "smtp" or "gmail"                   *)
  mails,      (* what was asked for and what became of it                  *)
  counter     (* MockEmailClient._counter                                  *)

vars == <<templates, draft, mailer, mails, counter>>

NoDraft == [outcome |-> "none", template |-> <<>>, given |-> <<>>, subject |-> <<>>, body |-> <<>>]

Init ==
  /\ templates = <<>> /\ draft = NoDraft
  /\ mailer \in {"memory", "smtp", "gmail"}
  /\ mails = <<>> /\ counter = 0

\* configure(): another client, or an engine without templates.
ConfigureClient(m) ==
  mailer' = m /\ counter' = 0 /\ UNCHANGED <<templates, draft, mails>>

ConfigureTemplates ==
  templates' = <<>> /\ UNCHANGED <<draft, mailer, mails, counter>>

-----------------------------------------------------------------------------
(* EmailTemplate, TemplateEngine                                           *)

Placeholders(t) == (ToSet(t.subject) \cup ToSet(t.body)) \cap Keys

\* The variables of a template: those it was given, or else its placeholders.
Register(name, subject, body, given) ==
  LET t == [subject |-> subject, body |-> body]
      new == [subject |-> subject, body |-> body,
              variables |-> IF given = {} THEN Placeholders(t) ELSE given]
  IN  /\ templates' = [n \in DOMAIN templates \cup {name} |->
                         IF n = name THEN new ELSE templates[n]]
      /\ UNCHANGED <<draft, mailer, mails, counter>>

\* Every placeholder of the key, at once.
Replace(text, key, value) ==
  FlattenSeq([i \in DOMAIN text |-> IF text[i] = key THEN value ELSE <<text[i]>>])

\* Mutant: every key is put into the text as it was at first.
RenderLast(text, given) ==
  IF given = <<>> THEN text ELSE Replace(text, Last(given)[1], Last(given)[2])

\* One key after the other, in the order they are given.
Render(text, given) ==
  FoldLeft(LAMBDA sofar, pair : Replace(sofar, pair[1], pair[2]), text, given)

Given(given) == {given[i][1] : i \in DOMAIN given}

\* draft_from_template: an unknown name or a missing variable is an answer.
Draft(name, given) ==
  /\ draft' =
       IF name \notin DOMAIN templates THEN [NoDraft EXCEPT !.outcome = "unknown"]
       ELSE IF ~(templates[name].variables \subseteq Given(given))
            THEN [NoDraft EXCEPT !.outcome = "missing"]
       ELSE [outcome |-> "draft", template |-> templates[name], given |-> given,
             subject |-> Render(templates[name].subject, given),
             body |-> Render(templates[name].body, given)]
  /\ UNCHANGED <<templates, mailer, mails, counter>>

-----------------------------------------------------------------------------
(* Sending                                                                 *)

\* The envelope of a mail.
Recipients(to, cc, bcc) == to \cup cc \cup bcc

Sent(to, cc, bcc, outcome, reached, id) ==
  /\ mails' = Append(mails, [to |-> to, cc |-> cc, bcc |-> bcc, outcome |-> outcome,
                             reached |-> reached, id |-> id])
  /\ UNCHANGED <<templates, draft, mailer>>

\* In memory: the mail is put into the list of those sent.
SendMemory(to, cc, bcc) ==
  /\ mailer = "memory" /\ counter' = counter + 1
  /\ Sent(to, cc, bcc, "sent", Recipients(to, cc, bcc), counter + 1)

\* SMTP: the server may take the mail for some recipients only, and smtplib
\* raises when it takes it for none; the refused ones are not looked at.  The id
\* is made from the subject.  A connection or a login that fails raises too.
SendSMTP(to, cc, bcc, taken) ==
  /\ mailer = "smtp" /\ taken \subseteq Recipients(to, cc, bcc)
  /\ Sent(to, cc, bcc, IF taken = {} THEN "raised" ELSE "sent", taken, 0)
  /\ UNCHANGED counter

\* Gmail: the recipients are those of the headers; all of them, or an error.
SendGmail(to, cc, bcc, ok) ==
  /\ mailer = "gmail"
  /\ Sent(to, cc, bcc, IF ok THEN "sent" ELSE "raised",
          IF ok THEN Recipients(to, cc, bcc) ELSE {}, 0)
  /\ UNCHANGED counter

DraftNext ==
  \/ \E n \in Names, s, b \in Texts, given \in {{}} \cup {{k} : k \in Keys} : Register(n, s, b, given)
  \/ \E n \in Names, given \in Variables : Draft(n, given)
  \/ ConfigureTemplates

SendNext ==
  \/ \E m \in {"memory", "smtp", "gmail"} : ConfigureClient(m)
  \/ Len(mails) < MaxMails /\ \E to, cc, bcc \in {{}} \cup {{p} : p \in People} :
       \/ SendMemory(to, cc, bcc)
       \/ \E taken \in SUBSET People : SendSMTP(to, cc, bcc, taken)
       \/ \E ok \in BOOLEAN : SendGmail(to, cc, bcc, ok)

Next == DraftNext \/ SendNext

Spec == Init /\ [][Next]_vars

-----------------------------------------------------------------------------
(* Properties                                                              *)

\* A placeholder for a key that is given becomes its value, all at once.
Filled(text, given) ==
  FlattenSeq([i \in DOMAIN text |->
    IF text[i] \in Given(given)
    THEN (CHOOSE p \in ToSet(given) : p[1] = text[i])[2] ELSE <<text[i]>>])

\* Replacing key after key fills a draft as if all were replaced at once, in
\* whatever order they come and whatever else is given, when no value holds a
\* placeholder itself; and none is left over in a draft from a template that
\* declares all of its own.  (render, validate, draft_from_template)
DraftIsFilled ==
  LET t == draft.template
      plain == \A p \in ToSet(draft.given) : ToSet(p[2]) \cap Keys = {}
  IN  draft.outcome = "draft" /\ plain =>
        /\ draft.subject = Filled(t.subject, draft.given)
        /\ draft.body = Filled(t.body, draft.given)
        /\ Placeholders(t) \subseteq t.variables =>
             (ToSet(draft.subject) \cup ToSet(draft.body)) \cap Keys = {}
=============================================================================
