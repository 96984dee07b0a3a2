-------------------------------- MODULE Items -------------------------------
(***************************************************************************)
(* One item of a create request on its way to the provider: what           *)
(* ValidateCreateItem accepts, what InsertNotification stores, what the    *)
(* table's CHECK allows, and what the worker's buildOutboundEnvelope makes  *)
(* of the stored row and its template.                                     *)
(*                                                                         *)
(* An item is a record: recipient and priority are whether the field is    *)
(* acceptable; content is "absent", "blank" or "text", with the lengths    *)
(* title of its first line and rest of what follows; template is the name  *)
(* of a template, Unknown, or NoTemplate; payload is "absent", "other"     *)
(* (JSON, but no object) or "object" (null too, which binds nothing);      *)
(* plain is the set of variables it binds to a value without a placeholder *)
(* in it; key is the trimmed idempotency key, or NoKey when there is none  *)
(* or it is blank.                                                         *)
(***************************************************************************)
EXTENDS Naturals, Sequences, FiniteSets

CONSTANTS
  Names,        \* template names
  NoTemplate,   \* template_id is null
  Unknown,      \* a template_id that no template has
  Keys,         \* idempotency keys
  NoKey         \* no idempotency key

ASSUME ItemsAssumption ==
  /\ Names \cap {NoTemplate, Unknown} = {}
  /\ NoTemplate # Unknown
  /\ NoKey \notin Keys

Channels == {"sms", "email", "push"}

AnyItem == [recipient : BOOLEAN, channel : STRING, priority : BOOLEAN,
            content : {"absent", "blank", "text"}, title : Nat, rest : Nat,
            template : Names \cup {NoTemplate, Unknown},
            payload : {"absent", "other", "object"}, plain : SUBSET STRING,
            key : Keys \cup {NoKey}]

-----------------------------------------------------------------------------
(* Validation *)

maxSMSLen == 1600
maxEmailSubject == 998
maxEmailBody == 256 * 1024
maxPushTitle == 50
maxPushBody == 200

\* The whole SMS counts, with the line break between title and rest.
Fits(item) ==
  CASE item.channel = "sms" ->
         item.title + (IF item.rest > 0 THEN item.rest + 1 ELSE 0) <= maxSMSLen
    [] item.channel = "email" -> item.title <= maxEmailSubject /\ item.rest <= maxEmailBody
    [] item.channel = "push" -> item.title <= maxPushTitle /\ item.rest <= maxPushBody

HasContent(item) == item.content = "text"
HasTemplate(item) == item.template # NoTemplate

\* Mutant of ValidateCreateItem: a template needs no payload.
ValidateWithoutPayload(item) ==
  /\ item.recipient
  /\ item.channel \in Channels
  /\ item.priority
  /\ HasContent(item) \/ HasTemplate(item)
  /\ HasContent(item) => Fits(item)

ValidateCreateItem(item) ==
  /\ item.recipient
  /\ item.channel \in Channels
  /\ item.priority
  /\ HasContent(item) \/ HasTemplate(item)
  /\ HasTemplate(item) => item.payload # "absent"
  /\ HasContent(item) => Fits(item)

-----------------------------------------------------------------------------
(* Storage.  The content of a row is trimmed, not nulled: a blank one is ''. *)

BodyCheck(item) ==
  \/ item.content # "absent"
  \/ HasTemplate(item) /\ item.payload # "absent"

-----------------------------------------------------------------------------
(* Whether the worker can build what it sends, [ok, why]: why is the error   *)
(* of a permanent failure, or where the text comes from.  The text itself,   *)
(* which no property is about, is left out.                                  *)

Text(source) == [ok |-> TRUE, why |-> source]
Refused(why) == [ok |-> FALSE, why |-> why]

\* The result is looked at once more after the substitution: a placeholder that
\* was not bound, or that a value brought in, is an error.
RenderTemplateBody(tpl, item) ==
  IF tpl.vars = {} THEN Text("template")
  ELSE IF item.payload = "absent" THEN Refused("empty payload")
  ELSE IF item.payload = "other" THEN Refused("not an object")
  ELSE IF tpl.vars \subseteq item.plain THEN Text("template")
  ELSE Refused("unresolved template variables")

\* templates maps the name of each existing template to its channel and the
\* variables of its body.
BuildOutboundEnvelope(item, templates) ==
  IF HasContent(item) THEN Text("content")
  ELSE IF ~HasTemplate(item) THEN Refused("missing content")
  ELSE IF templates[item.template].channel # item.channel
         THEN Refused("template channel mismatch")
  ELSE RenderTemplateBody(templates[item.template], item)
=============================================================================
