------------------------------ MODULE MCIntake ------------------------------
(* Intake for TLC: the items clients send, the templates they create and the *)
(* pages they ask for. *)
EXTENDS Intake

CONSTANTS r1, r2, k1, k2, welcome

MCRequests == {r1, r2}
MCNames == {welcome}
MCKeys == {k1, k2}

Sms(k) == [recipient |-> TRUE, channel |-> "sms", priority |-> TRUE, content |-> "text",
           title |-> 20, rest |-> 0, template |-> NoTemplate, payload |-> "absent",
           plain |-> {}, key |-> k]

\* An item that takes its text from a template.
Templated(content, payload) ==
  [Sms(NoKey) EXCEPT !.content = content, !.title = 0, !.template = welcome,
                     !.payload = payload, !.plain = IF payload = "object" THEN {"name"} ELSE {}]

Sized(channel, title, rest) ==
  [Sms(NoKey) EXCEPT !.channel = channel, !.title = title, !.rest = rest]

Batched == {<<Sms(k1), Sms(k2)>>, <<Sms(k2), Sms(k1)>>, <<Sms(k1), Sms(k1)>>,
            <<Sized("push", 50, 200), Templated("blank", "object")>>}

Alone == {Sms(k1), Templated("absent", "other"),
          [Templated("absent", "object") EXCEPT !.template = Unknown]}

\* What validation refuses, or an empty or too long request.
Bad == {Templated("blank", "absent"), [Sms(k1) EXCEPT !.content = "blank"],
        Sized("sms", 1600, 1), Sized("email", 999, 1), Sized("fax", 1, 1)}

MCBodies == Batched \cup {<<item>> : item \in Alone \cup Bad}
              \cup {<<>>, <<Sms(k1), Sms(k1), Sms(k1)>>}

Template(channel, names) ==
  [named |-> TRUE, written |-> TRUE, name |-> welcome, channel |-> channel, vars |-> names]

MCTemplateRequests == {Template("sms", {"name"}), Template("email", {})}

MCIdOrder == [row \in MCRequests \X (1..MaxItems) |->
                IF row[1] = r1 THEN 3 - row[2] ELSE row[2] + 2]

Query(pending, from, to, limit) ==
  [pending |-> pending, from |-> from, to |-> to, limit |-> limit]

\* A page at the cap with every filter, and a limit above the cap.
MCQueries == {Query(TRUE, 0, 1, 2), Query(FALSE, 0, 2, 3)}
=============================================================================
