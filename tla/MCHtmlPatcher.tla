------------------------------ MODULE MCHtmlPatcher ------------------------------
(* HtmlPatcher for pages with up to two elements in the head and in the     *)
(* body; the last one of the body may be inside of the one before it, or    *)
(* have a clone.                                                            *)
EXTENDS HtmlPatcher

InHead == {"base", "title", "policy", "script", "text"}
InBody == {"policy", "script", "stray", "text"}

Element(tag, parent, place) == [tag |-> tag, parent |-> parent, place |-> place]

\* A head with its elements and a body with its.  The places of a page begin
\* with the head if it has one.
PageOf(explicit, head, body, nested, clone) ==
  LET first == IF explicit THEN 1 ELSE 0
      h == Len(head)
      place(i) == first + i
      elements ==
        <<Element("head", 0, first)>> \o
        [i \in DOMAIN head |-> Element(head[i], 1, place(i))] \o
        <<Element("body", 0, place(h + 1))>> \o
        [i \in DOMAIN body |-> Element(body[i], IF nested /\ i = 2 /\ body[1] = "text" THEN h + 3 ELSE h + 2,
                                       place(h + 1 + i))]
  IN IF clone /\ body # <<>> THEN Append(elements, [Last(elements) EXCEPT !.parent = h + 2])
                             ELSE elements

MCPages ==
  {PageOf(explicit, head, body, nested, clone) :
     explicit \in BOOLEAN, head \in BoundedSeq(InHead, 2), body \in BoundedSeq(InBody, 2),
     nested \in BOOLEAN, clone \in BOOLEAN}
MCOptions == {{}, {"script"}, {"base", "title"}, {"script", "base", "title"}}
=============================================================================
