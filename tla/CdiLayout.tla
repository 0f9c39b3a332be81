------------------------------ MODULE CdiLayout ------------------------------
(***************************************************************************)
(* CDIUtils::layout_segment and CDINodeRep (openlcb/CDIUtils.hxx): the    *)
(* offset layout of one CDI segment.  The walk visits the XML elements in *)
(* document order without recursion, keeping the current parent and child *)
(* and the NodeInfo of the parent; it writes offset_from_parent and size   *)
(* of every data element.  CDINodeRep then computes absolute addresses     *)
(* from them, per replica of a repeated group.                             *)
(*                                                                         *)
(* A document is element 0 (the segment) and elements 1 .. K in document   *)
(* order; father and tag are fixed by the document, attributes are the    *)
(* integers atoi returns or Absent.  The children of an element are the    *)
(* elements whose father it is, in increasing order.                       *)
(***************************************************************************)
EXTENDS Integers, FiniteSets, FiniteSetsExt

CONSTANTS
  K,        \* elements below the segment
  Origin,   \* the segment's origin attribute
  Absent    \* an attribute that is missing or empty

ASSUME CdiConstants == K \in Nat /\ Origin \in Nat /\ Absent \notin Int

Elems == 0 .. K
Segment == 0
None == -1

(* An element: its tag and the attributes the layout reads.                *)
Kinds ==
  {[tag |-> "name", offset |-> Absent, size |-> Absent, replication |-> Absent],
   [tag |-> "eventid", offset |-> Absent, size |-> Absent, replication |-> Absent]}
  \cup [tag : {"int"}, offset : {Absent, 1}, size : {Absent, 2},
         replication : {Absent}]
  \cup [tag : {"group"}, offset : {Absent, 1}, size : {Absent},
         replication : {Absent, 2}]

(* The elements from i up to the segment.                                   *)
AncestorsOrSelf(f, i) ==
  LET anc[j \in 0 .. K] == IF j = 0 THEN {0} ELSE {j} \cup anc[f[j]] IN anc[i]

(* The documents of K elements: every element's father is an ancestor of  *)
(* its predecessor, or the predecessor itself, so the numbering is the     *)
(* document order; only groups hold elements.                               *)
Shapes ==
  {f \in [1 .. K -> 0 .. K - 1] :
     \A i \in 1 .. K : f[i] < i /\ f[i] \in AncestorsOrSelf(f, i - 1)}
Docs ==
  {d \in [father : Shapes, kind : [1 .. K -> Kinds]] :
     \A i \in 1 .. K : d.father[i] # 0 => d.kind[d.father[i]].tag = "group"}

VARIABLES
  doc,     \* the parsed document
  info,    \* node->user: the NodeInfo of an element, or None
  pc,      \* where layout_segment is
  cur,     \* current_child
  par,     \* current_parent
  pinfo    \* the element whose NodeInfo parent_info points at

vars == <<doc, info, pc, cur, par, pinfo>>

NoInfo == [offset |-> 0, size |-> 0, set |-> FALSE]

Children(e) == {c \in 1 .. K : doc.father[c] = e}
FirstChild(e) == Min(Children(e))
NextSibling(c) ==
  LET later == {s \in Children(doc.father[c]) : s > c}
  IN IF later = {} THEN None ELSE Min(later)

TypeOK ==
  /\ doc \in Docs
  /\ info \in [Elems -> [offset : Int, size : Int, set : BOOLEAN]]
  /\ pc \in {"start", "visit", "next", "done"}
  /\ cur \in Elems \cup {None} /\ par \in Elems /\ pinfo \in Elems

(* prepare_doc has cleared every userinfo pointer.                          *)
Init ==
  /\ doc \in Docs
  /\ info = [e \in Elems |-> NoInfo]
  /\ pc = "start" /\ cur = None /\ par = Segment /\ pinfo = Segment

(* get_numeric_attribute: the default for a missing or empty attribute.    *)
NumericAttribute(e, name, def) ==
  IF doc.kind[e][name] = Absent THEN def ELSE doc.kind[e][name]

-----------------------------------------------------------------------------
(* Entry: the segment's NodeInfo gets the origin; an empty segment ends.   *)
LayoutStart ==
  /\ pc = "start"
  /\ info' = [info EXCEPT ![Segment] = [NoInfo EXCEPT !.offset = Origin,
                                                      !.set = TRUE]]
  /\ IF Children(Segment) = {}
       THEN pc' = "done" /\ UNCHANGED <<cur, par, pinfo>>
       ELSE /\ cur' = FirstChild(Segment) /\ par' = Segment
            /\ pinfo' = Segment /\ pc' = "visit"
  /\ UNCHANGED doc

(* One pass of the loop body for current_child: name, description and     *)
(* repname are skipped; a data element gets a NodeInfo, the parent's size *)
(* grows by the offset attribute and becomes the element's                 *)
(* offset_from_parent; eventid is 8 bytes, int (string, float) its size   *)
(* attribute or 1; a group with children is entered (continue), any other *)
(* element adds its size to the parent.                                     *)
Visit ==
  /\ pc = "visit"
  /\ IF doc.kind[cur].tag = "name" THEN pc' = "next" /\ UNCHANGED <<info, cur, par, pinfo>>
     ELSE
       LET off == NumericAttribute(cur, "offset", 0)
           start == info[pinfo].size + off
           size == CASE doc.kind[cur].tag = "eventid" -> 8
                     [] doc.kind[cur].tag = "int" -> NumericAttribute(cur, "size", 1)
                     [] OTHER -> 0
       IN IF doc.kind[cur].tag = "group" /\ Children(cur) # {}
            THEN /\ info' = [info EXCEPT ![pinfo].size = start,
                                         ![cur] = [offset |-> start, size |-> 0,
                                                   set |-> TRUE]]
                 /\ par' = cur /\ cur' = FirstChild(cur) /\ pinfo' = cur
                 /\ pc' = "visit"
            ELSE /\ info' = [info EXCEPT ![pinfo].size = start + size,
                                         ![cur] = [offset |-> start,
                                                   size |-> size, set |-> TRUE]]
                 /\ pc' = "next" /\ UNCHANGED <<cur, par, pinfo>>
  /\ UNCHANGED doc

(* Mutant: the size of a finished group is not multiplied by replication. *)
MoveNextNoReplication ==
  /\ pc = "next"
  /\ LET sib == NextSibling(cur) IN
       CASE sib # None -> cur' = sib /\ pc' = "visit" /\ UNCHANGED <<info, par, pinfo>>
         [] par = Segment -> pc' = "done" /\ UNCHANGED <<info, cur, par, pinfo>>
         [] OTHER ->
              LET up == doc.father[par]
              IN /\ info' = [info EXCEPT ![up].size = @ + info[par].size]
                 /\ cur' = par /\ par' = up /\ pinfo' = up
                 /\ pc' = "next"
  /\ UNCHANGED doc

(* One pass of the "move to next child" loop: take the next sibling; at   *)
(* the end of the segment's children the walk ends; at the end of a        *)
(* group's children go up to the group, multiply its size by its          *)
(* replication and add it to its parent's size.                            *)
MoveNext ==
  /\ pc = "next"
  /\ LET sib == NextSibling(cur) IN
       CASE sib # None -> cur' = sib /\ pc' = "visit" /\ UNCHANGED <<info, par, pinfo>>
         [] par = Segment -> pc' = "done" /\ UNCHANGED <<info, cur, par, pinfo>>
         [] OTHER ->
              LET up == doc.father[par]
                  total == info[par].size * NumericAttribute(par, "replication", 1)
              IN /\ info' = [info EXCEPT ![par].size = total,
                                         ![up].size = @ + total]
                 /\ cur' = par /\ par' = up /\ pinfo' = up
                 /\ pc' = "next"
  /\ UNCHANGED doc

Next == LayoutStart \/ Visit \/ MoveNext

Spec == Init /\ [][Next]_vars


-----------------------------------------------------------------------------
(* CDINodeRep: address_ of the segment (its origin), of a child            *)
(* (get_child_address), of a group without replication, and of replica r *)
(* of a repeated group: the stride is the group's size over replication.  *)
SegmentRep == info[Segment].offset
GetChildAddress(address, child) == address + info[child].offset
GroupRep(address, group) == GetChildAddress(address, group)

(* Mutant: the stride is the size of the whole repeated group.             *)
ReplicaRepWholeStride(address, group, replica) ==
  GetChildAddress(address, group) + info[group].size * replica

ReplicaRep(address, group, replica) ==
  GetChildAddress(address, group)
    + (info[group].size \div NumericAttribute(group, "replication", 1)) * replica

(* The address of an element, reached from the segment through the groups *)
(* above it, in the replica rep[g] of each repeated group g.               *)
CodeAddress(e, rep) ==
  LET rep_[g \in Elems] ==
        IF g = Segment THEN SegmentRep
        ELSE IF NumericAttribute(g, "replication", 1) = 1
               THEN GroupRep(rep_[doc.father[g]], g)
             ELSE ReplicaRep(rep_[doc.father[g]], g, rep[g])
  IN GetChildAddress(rep_[doc.father[e]], e)

-----------------------------------------------------------------------------
(* The reference layout of the CDI: a data element starts at the running  *)
(* address of its group plus its offset attribute and takes its size; a   *)
(* group's size is its replication times its contents; each replica of a  *)
(* group starts one contents size after the previous one.                  *)
IsData(e) == doc.kind[e].tag # "name"
Skip(e) == NumericAttribute(e, "offset", 0)
Footprint(e, size) == IF IsData(e) THEN Skip(e) + size ELSE 0
RefSize[e \in Elems] ==
  LET contents == MapThenSumSet(LAMBDA c : Footprint(c, RefSize[c]), Children(e))
  IN IF e = Segment THEN contents
     ELSE CASE doc.kind[e].tag = "eventid" -> 8
            [] doc.kind[e].tag = "int" -> NumericAttribute(e, "size", 1)
            [] doc.kind[e].tag = "group" ->
                 NumericAttribute(e, "replication", 1) * contents
            [] OTHER -> 0
Contents(g) == MapThenSumSet(LAMBDA c : Footprint(c, RefSize[c]), Children(g))
RefOffset(e) ==
  Skip(e) + MapThenSumSet(LAMBDA s : Footprint(s, RefSize[s]),
                          {s \in Children(doc.father[e]) : s < e})
RefAddress(e, rep) ==
  LET start[g \in Elems] ==
        IF g = Segment THEN Origin
        ELSE start[doc.father[g]] + RefOffset(g) + Contents(g) * rep[g]
  IN start[doc.father[e]] + RefOffset(e)

(* The replica choices: one replica index for each repeated group.         *)
Replicas ==
  {rep \in [Elems -> 0 .. 1] :
     \A g \in Elems : rep[g] < IF g = Segment \/ doc.kind[g].tag # "group" THEN 1
                              ELSE NumericAttribute(g, "replication", 1)}

(* When layout_segment returns, every data element, and no name element,  *)
(* has a NodeInfo whose offset_from_parent and size are those of the CDI  *)
(* layout, and the segment's NodeInfo holds its origin and total size: the *)
(* iterative walk with its deferred replication agrees with the recursive *)
(* definition (NodeInfo's comment, lines 174-181).                          *)
LayoutMatchesReference ==
  pc = "done" =>
    /\ info[Segment] = [offset |-> Origin, size |-> RefSize[Segment], set |-> TRUE]
    /\ \A e \in 1 .. K :
         IF IsData(e)
           THEN info[e] = [offset |-> RefOffset(e), size |-> RefSize[e], set |-> TRUE]
           ELSE ~info[e].set

(* After the layout, CDINodeRep gives every data element, in every replica *)
(* of the repeated groups above it, the address the CDI layout gives it.   *)
AddressesMatchReference ==
  pc = "done" =>
    \A rep \in Replicas, e \in 1 .. K :
      IsData(e) => CodeAddress(e, rep) = RefAddress(e, rep)

=============================================================================
