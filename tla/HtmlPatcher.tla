------------------------------- MODULE HtmlPatcher -------------------------------
(***************************************************************************)
(* HtmlPatcher (src/src/HtmlPatcher.cpp): how the HTML pages that are      *)
(* served are patched.                                                     *)
(*                                                                         *)
(* The text of a page is a sequence of pieces, three for each element: the *)
(* beginning of its tag, the attribute that matters (href of base,         *)
(* integrity or crossorigin of a script), and the rest of its tag with the *)
(* text behind it.  Gumbo makes a tree of elements from it and tells their *)
(* places.  Elements that were not closed properly get clones, which have  *)
(* the same place, and a page without head gets one that has no place; a   *)
(* <head> in an odd place is but text of an element ("stray").             *)
(*                                                                         *)
(* parse_html goes through the tree and collects patches; get_patched      *)
(* sorts them by position and applies them.  std::sort does not say in     *)
(* which order patches of one position come.                               *)
(***************************************************************************)
EXTENDS Naturals, Sequences, SequencesExt

CONSTANTS
  Pages,     \* sequences of elements: records [tag, parent, place]
  Options    \* sets of what is to be done: "script", "base", "title"

Tags == {"head", "base", "title", "policy", "script", "stray", "body", "text"}

\* The elements are numbered depth first.  The children of element 0, the
\* root, are the head, which Gumbo always makes, and the body; a policy is a
\* meta element, which has no children.
WellFormed(tree) ==
  /\ tree \in Seq([tag : Tags, parent : Nat, place : Nat])
  /\ \E i \in DOMAIN tree : tree[i].tag = "head"
  /\ \A i \in DOMAIN tree :
       LET parent == tree[i].parent
       IN /\ parent < i /\ \A j \in parent + 1..i : tree[j].parent >= parent
          /\ parent # 0 => tree[parent].tag # "policy"
          /\ tree[i].place <= Len(tree)

ASSUME PagesAssumption == \A tree \in Pages : WellFormed(tree)

VARIABLES
  page,           \* m_data
  options,        \* m_inject_js_path, m_patch_base_tag, m_patch_title
  stack,          \* element_stack, ascending: its top is the largest number
  start_of_head,  \* the position behind the head tag, or 0
  base_url,       \* the places of the base tags that were applied
  patches,        \* m_patches
  phase,
  pos,            \* of get_patched
  data            \* of get_patched: the patched page

vars == <<page, options, stack, start_of_head, base_url, patches, phase, pos, data>>

\* The positions of the three pieces of an element.
Tag(place) == 3 * place - 2
Attribute(place) == 3 * place - 1
Rest(place) == 3 * place
End == 3 * (CHOOSE n \in 0..Len(page) :
              /\ \A i \in DOMAIN page : page[i].place <= n
              /\ n = 0 \/ \E i \in DOMAIN page : page[i].place = n)

Patch(at, size, text) == [at |-> at, size |-> size, text |-> text]

Init ==
  /\ page \in Pages
  /\ options \in Options
  /\ stack = {0}
  /\ start_of_head = 0
  /\ base_url = <<>>
  /\ patches = <<>>
  /\ phase = "parsing"
  /\ pos = 1
  /\ data = <<>>

-----------------------------------------------------------------------------
(* parse_html                                                              *)

Children(i) == {j \in DOMAIN page : page[j].parent = i}

\* The patches for an element.  What a policy says does not matter when its
\* tag is removed.
\* Mutant: policies are left in the page.
PatchesOf_NoPolicy(element) ==
  CASE element.tag = "script" -> <<Patch(Attribute(element.place), 1, "none")>>
    [] OTHER -> <<>>
PatchesOf(element) ==
  CASE element.tag = "base" /\ "base" \in options ->
         <<Patch(Attribute(element.place), 1, "base url")>>
    [] element.tag = "title" /\ "title" \in options ->
         <<Patch(Rest(element.place), 1, "title")>>
    [] element.tag = "policy" -> <<Patch(Tag(element.place), 3, "none")>>
    [] element.tag = "script" -> <<Patch(Attribute(element.place), 1, "none")>>
    [] OTHER -> <<>>

VisitRoot ==
  /\ phase = "parsing" /\ stack = {0}
  /\ stack' = Children(0)
  /\ UNCHANGED <<page, options, start_of_head, base_url, patches, phase, pos, data>>

\* The element on top of the stack; its children are pushed, the last on top.
\* Those of a policy are not.
Visit ==
  /\ phase = "parsing" /\ stack # {0}
  /\ \E node \in stack :
       LET element == page[node]
       IN /\ \A i \in stack : i <= node
          /\ start_of_head' = IF element.tag = "head" /\ element.place > 0
                              THEN Rest(element.place) + 1 ELSE start_of_head
          /\ base_url' = IF element.tag = "base" THEN Append(base_url, element.place) ELSE base_url
          /\ patches' = patches \o PatchesOf(element)
          /\ stack' = (stack \ {node}) \cup
                      (IF element.tag = "policy" THEN {} ELSE Children(node))
  /\ UNCHANGED <<page, options, phase, pos, data>>

\* "sometimes the HTML is too foobared for gumbo": then the head starts behind
\* the first <head> of the text.
FindHead ==
  LET stray == {Rest(page[i].place) + 1 : i \in {j \in DOMAIN page : page[j].tag = "stray"}}
  IN IF start_of_head # 0 \/ stray = {} THEN start_of_head ELSE Min(stray)

\* What is injected at the start of the head.
Injected(at) ==
  IF at = 0 THEN <<>>
  ELSE (IF "script" \in options THEN <<Patch(at, 0, "script")>> ELSE <<>>) \o
       (IF "base" \in options /\ base_url = <<>> THEN <<Patch(at, 0, "base tag")>> ELSE <<>>)

-----------------------------------------------------------------------------
(* get_patched                                                             *)

\* All orders of the patches that are sorted by their position.
\* Mutant: they remain in the order in which the elements were visited.
Sorted_Visited(list) == {list}
Sorted(list) ==
  {[i \in DOMAIN list |-> list[order[i]]] :
     order \in {o \in SetToSeqs(DOMAIN list) :
                  \A i, j \in DOMAIN list : i < j => list[o[i]].at <= list[o[j]].at}}

Inject ==
  /\ phase = "parsing" /\ stack = {}
  /\ start_of_head' = FindHead
  /\ patches' \in Sorted(patches \o Injected(FindHead))
  /\ phase' = "patching"
  /\ UNCHANGED <<page, options, stack, base_url, pos, data>>

Pieces(from, to) == [i \in 1..to - from |-> <<from + i - 1, "page">>]
Text(patch) == IF patch.text = "none" THEN <<>> ELSE <<<<0, patch.text>>>>

ApplyPatch ==
  /\ phase = "patching" /\ patches # <<>>
  /\ LET patch == Head(patches)
     IN /\ pos <= patch.at
        /\ data' = data \o Pieces(pos, patch.at) \o Text(patch)
        /\ pos' = patch.at + patch.size
  /\ patches' = Tail(patches)
  /\ UNCHANGED <<page, options, stack, start_of_head, base_url, phase>>

\* Mutant of SkipPatch: of patches that overlap, the texts are all inserted.
SkipPatch_Inserting ==
  /\ phase = "patching" /\ patches # <<>>
  /\ pos > Head(patches).at
  /\ data' = data \o Text(Head(patches))
  /\ pos' = Head(patches).at + Head(patches).size
  /\ patches' = Tail(patches)
  /\ UNCHANGED <<page, options, stack, start_of_head, base_url, phase>>

\* "there should not be overlapping ranges, but there are sometimes"
SkipPatch ==
  /\ phase = "patching" /\ patches # <<>>
  /\ pos > Head(patches).at
  /\ patches' = Tail(patches)
  /\ UNCHANGED <<page, options, stack, start_of_head, base_url, phase, pos, data>>

Finish ==
  /\ phase = "patching" /\ patches = <<>>
  /\ data' = data \o Pieces(pos, End + 1)
  /\ phase' = "done"
  /\ UNCHANGED <<page, options, stack, start_of_head, base_url, patches, pos>>

Next == VisitRoot \/ Visit \/ Inject \/ ApplyPatch \/ SkipPatch \/ Finish

Spec == Init /\ [][Next]_vars

-----------------------------------------------------------------------------
(* Properties.                                                             *)

Places(tags) == {page[i].place : i \in {j \in DOMAIN page : page[j].tag \in tags}}

\* The pieces that a patched page must not have any more.
Unwanted ==
  (UNION {{Tag(p), Attribute(p), Rest(p)} : p \in Places({"policy"})}) \cup
  {Attribute(p) : p \in Places({"script"})} \cup
  (IF "base" \in options THEN {Attribute(p) : p \in Places({"base"})} ELSE {}) \cup
  (IF "title" \in options THEN {Rest(p) : p \in Places({"title"})} ELSE {})

\* However patches coincide, overlap or repeat: the patched page has the rest
\* of the page, every piece of it once and in order, and nothing of what stops
\* a patched page from working (security policies, integrity attributes).
PageIsKept ==
  phase = "done" =>
    LET kept == {i \in DOMAIN data : data[i][1] # 0}
    IN /\ {data[i][1] : i \in kept} = (1..End) \ Unwanted
       /\ \A i, j \in kept : i < j => data[i][1] < data[j][1]

\* The script is inserted once, behind what is taken for the head tag and before
\* anything else that follows in the page, which it must precede to redirect
\* its requests; so is the base tag of a page that has none.  (Not so when a
\* policy tag that is removed follows the head tag immediately.)
ScriptComesFirst ==
  /\ phase = "done"
  /\ Places({"head"}) # {0} \/ Places({"stray"}) # {}
  /\ start_of_head \notin {Tag(p) : p \in Places({"policy"})}
  =>
    LET wanted == (options \cap {"script"}) \cup
                  (IF "base" \in options /\ Places({"base"}) = {} THEN {"base tag"} ELSE {})
        inserted == {i \in DOMAIN data : data[i][2] \in {"script", "base tag"}}
    IN /\ {data[i][2] : i \in inserted} = wanted
       /\ \A i, j \in inserted : data[i][2] = data[j][2] => i = j
       /\ \A i \in inserted, j \in DOMAIN data :
            data[j][1] # 0 => (i < j <=> data[j][1] >= start_of_head)
=============================================================================
