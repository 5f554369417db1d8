------------------------------ MODULE BtfFilter ------------------------------
(***************************************************************************)
(* tc_legacy_fix_btf_section (redbpf/src/btf.rs): the .BTF section of an   *)
(* ELF object is parsed, BTF::filter removes the types that the tc command *)
(* does not know together with all types that depend on them and gives the *)
(* rest new ids, and BTF::dump writes a section of the same size.          *)
(*                                                                         *)
(* A type is [kind, refs, vals]: refs are the ids it refers to, in order   *)
(* and with repetitions (members, parameters, element and index type, ...),*)
(* vals is the number of values of an enumeration (0 for other kinds);     *)
(* id 0 is void.  A type has no id of its own in the encoding: its id is   *)
(* its position.  In which order the referrers of a removed type are       *)
(* visited is left open (in_link and stack are sets): to visit a type a    *)
(* second time changes nothing.                                            *)
(***************************************************************************)
EXTENDS Integers, Sequences, FiniteSets

CONSTANTS
  Sections,  \* the .BTF sections: [types, gap, strLen]
  Kinds,     \* the kinds of types that occur
  Unknown    \* the kinds that tc does not know: Variable, DataSection, FloatingPoint

ASSUME FilterAssumption ==
  /\ Unknown \subseteq Kinds
  /\ \A s \in Sections :
       /\ s.types \in Seq([kind : Kinds, refs : Seq(Nat), vals : Nat])
       /\ s.gap \in Nat /\ s.strLen \in Nat

VARIABLES
  section, \* the section, as parsed
  pc,      \* "parse", "next", "walk", "renumber", "dump", "Ok" or an error
  link,    \* in_link: id => the types that refer to it
  pos,     \* the type the outer loop has reached
  rem,     \* rem_id
  stack,   \* referrers still to be removed
  types,   \* BTF::types
  hdr,     \* the lengths and offsets of btf_header
  strs,    \* length of raw_str_enc
  fixed    \* length of the section that was written

filterVars == <<section, pc, link, pos, rem, stack, types, hdr, strs, fixed>>

Empty == [x \in {} |-> x]

\* BtfType::byte_len: struct btf_type and the extra data.
ByteLen(t) ==
  LET n == Len(t.refs)
  IN  12 + CASE t.kind \in {"Integer", "Variable"} -> 4
             [] t.kind = "Array" -> 12
             [] t.kind \in {"Structure", "Union", "DataSection"} -> 12 * n
             [] t.kind = "FunctionProtocol" -> 8 * (n - 1)
             [] t.kind = "Enumeration" -> 8 * t.vals
             [] OTHER -> 0

TypesLen(ts) ==
  LET Sum[i \in 0 .. Len(ts)] == IF i = 0 THEN 0 ELSE Sum[i - 1] + ByteLen(ts[i])
  IN  Sum[Len(ts)]

SectionLen(s) == TypesLen(s.types) + s.gap + s.strLen

FilterInit ==
  /\ section \in Sections
  /\ pc = "parse" /\ link = Empty /\ pos = 1 /\ rem = 0 /\ stack = {}
  /\ types = <<>> /\ hdr = [typeLen |-> 0, strOff |-> 0, strLen |-> 0] /\ strs = 0 /\ fixed = 0

-----------------------------------------------------------------------------
(* BTF::filter                                                             *)

RefsOf(t)         == {t.refs[k] : k \in DOMAIN t.refs}
Used(ts)          == UNION {RefsOf(ts[j]) : j \in DOMAIN ts}
Referrers(ts, id) == {j \in DOMAIN ts : id \in RefsOf(ts[j])}

\* Mutant of Parse: in_link holds what a type refers to.
ParseOutLinks ==
  /\ pc = "parse" /\ pc' = "next"
  /\ LET ts == section.types
     IN  /\ types' = ts
         /\ hdr' = [typeLen |-> TypesLen(ts), strOff |-> TypesLen(ts) + section.gap,
                    strLen |-> section.strLen]
         /\ strs' = section.strLen
         /\ link' = [id \in DOMAIN ts \cup Used(ts) |-> IF id \in DOMAIN ts THEN RefsOf(ts[id]) \ {0} ELSE {}]
  /\ UNCHANGED <<section, pos, rem, stack, fixed>>

\* BTF::parse_raw and the first loop of filter, which builds in_link.
Parse ==
  /\ pc = "parse" /\ pc' = "next"
  /\ LET ts == section.types
     IN  /\ types' = ts
         /\ hdr' = [typeLen |-> TypesLen(ts), strOff |-> TypesLen(ts) + section.gap,
                    strLen |-> section.strLen]
         /\ strs' = section.strLen
         /\ link' = [id \in DOMAIN ts \cup Used(ts) |-> Referrers(ts, id)]
  /\ UNCHANGED <<section, pos, rem, stack, fixed>>

\* One turn of the loop over the types: does f reject the type?
NextType ==
  /\ pc = "next" /\ pos \in DOMAIN types
  /\ IF types[pos].kind \in Unknown
     THEN rem' = pos /\ pc' = "walk" /\ UNCHANGED pos
     ELSE pos' = pos + 1 /\ UNCHANGED <<rem, pc>>
  /\ UNCHANGED <<section, link, stack, types, hdr, strs, fixed>>

\* stack.pop()
Pop ==
  \/ /\ stack # {}
     /\ \E x \in stack : rem' = x /\ stack' = stack \ {x}
     /\ UNCHANGED <<pc, pos>>
  \/ /\ stack = {}
     /\ pc' = "next" /\ pos' = pos + 1
     /\ UNCHANGED <<rem, stack>>

\* Mutant of Walk: only one referrer is followed.
WalkOnePath ==
  /\ pc = "walk"
  /\ link' = [id \in DOMAIN link \ {rem} |-> link[id]]
  /\ IF rem \in DOMAIN link /\ link[rem] # {}
     THEN /\ \E x \in link[rem] : rem' = x /\ stack' = stack
          /\ UNCHANGED <<pc, pos>>
     ELSE Pop
  /\ UNCHANGED <<section, types, hdr, strs, fixed>>

\* Mutant of Walk: the entry is looked up, not removed.
WalkKeepsEntry ==
  /\ pc = "walk"
  /\ link' = link
  /\ IF rem \in DOMAIN link /\ link[rem] # {}
     THEN /\ \E x \in link[rem] : rem' = x /\ stack' = stack \cup (link[rem] \ {x})
          /\ UNCHANGED <<pc, pos>>
     ELSE Pop
  /\ UNCHANGED <<section, types, hdr, strs, fixed>>

\* One turn of 'recur: the entry of rem is removed, one referrer is next and
\* the others are put on the stack.
Walk ==
  /\ pc = "walk"
  /\ link' = [id \in DOMAIN link \ {rem} |-> link[id]]
  /\ IF rem \in DOMAIN link /\ link[rem] # {}
     THEN /\ \E x \in link[rem] : rem' = x /\ stack' = stack \cup (link[rem] \ {x})
          /\ UNCHANGED <<pc, pos>>
     ELSE Pop
  /\ UNCHANGED <<section, types, hdr, strs, fixed>>

LoopDone ==
  /\ pc = "next" /\ pos \notin DOMAIN types
  /\ pc' = "renumber"
  /\ UNCHANGED <<section, link, pos, rem, stack, types, hdr, strs, fixed>>

\* Mutant of NewId: the first id that is left gets 0.
NewIdFromZero(old) ==
  Cardinality({id \in DOMAIN link : id < old})

\* The ids that are left, in order, get new ones; without void they start at 1.
NewId(old) ==
  Cardinality({id \in DOMAIN link : id < old}) + (IF 0 \in DOMAIN link THEN 0 ELSE 1)

\* The numbers of S in increasing order.
Smaller(S, x) == {y \in S : y < x}
InOrder(S) == [i \in 1 .. Cardinality(S) |-> CHOOSE x \in S : Cardinality(Smaller(S, x)) = i - 1]

\* The old ids of the types that are left, in order.
OldIds == InOrder(DOMAIN link \cap DOMAIN types)

NewTypes ==
  LET old == OldIds
  IN  [i \in DOMAIN old |->
     LET t == types[old[i]]
     IN  [t EXCEPT !.refs = [k \in DOMAIN t.refs |-> NewId(t.refs[k])]]]

\* A reference without a new id is an error: "inconsistency detected in BTF".
Consistent ==
  \A id \in DOMAIN link \cap DOMAIN types : RefsOf(types[id]) \subseteq DOMAIN link

\* The rest of filter: references are rewritten, the strings take up the room
\* that became free.
Renumber ==
  /\ pc = "renumber"
  /\ IF Consistent
     THEN LET typeLen == TypesLen(NewTypes)
              decreased == hdr.typeLen - typeLen
          IN  /\ types' = NewTypes
              /\ hdr' = [typeLen |-> typeLen, strOff |-> hdr.strOff - decreased,
                         strLen |-> hdr.strLen + decreased]
              /\ strs' = strs + decreased
              /\ pc' = "dump"
     ELSE pc' = "inconsistent" /\ UNCHANGED <<types, hdr, strs>>
  /\ UNCHANGED <<section, link, pos, rem, stack, fixed>>

-----------------------------------------------------------------------------
(* BTF::dump and the rest of tc_legacy_fix_btf_section                     *)

\* Header (type_off is 0), types, padding up to the strings, strings.
Dump ==
  /\ pc = "dump"
  /\ pc' = IF TypesLen(types) # hdr.typeLen \/ hdr.strOff < hdr.typeLen
                \/ strs # hdr.strLen
           THEN "mismatch"
           ELSE IF hdr.strOff + strs > SectionLen(section) THEN "bloated"
           ELSE IF hdr.strOff + strs < SectionLen(section) THEN "shrunk" ELSE "Ok"
  /\ fixed' = hdr.strOff + strs
  /\ UNCHANGED <<section, link, pos, rem, stack, types, hdr, strs>>

FilterNext == Parse \/ NextType \/ Walk \/ LoopDone \/ Renumber \/ Dump

\* A sequential program runs on.
FilterSpec == FilterInit /\ [][FilterNext]_filterVars /\ WF_filterVars(FilterNext)

-----------------------------------------------------------------------------
(* Properties                                                              *)

\* The shape of the state; what is to be removed next is a type.
FilterTypeOK ==
  /\ pc \in {"parse", "next", "walk", "renumber", "dump", "Ok", "inconsistent", "mismatch",
             "bloated", "shrunk"}
  /\ pos \in 1 .. Len(section.types) + 1
  /\ stack \subseteq DOMAIN section.types
  /\ pc = "walk" => rem \in DOMAIN section.types

\* The walk never leaves a type whose reference is gone: the error
\* "inconsistency detected in BTF" does not occur, whatever types refer to
\* which, in cycles or several times.
NeverInconsistent == pc # "inconsistent"

\* References of a section that lead to one of its types, or to void.
RefsInside == \A s \in Sections : Used(s.types) \subseteq 0 .. Len(s.types)

\* Types that can do without the others: none is rejected, and they refer to
\* each other only.
Independent(ts, S) ==
  \A j \in S : ts[j].kind \notin Unknown /\ RefsOf(ts[j]) \cap DOMAIN ts \subseteq S

\* The most types that can be kept.
Kept(ts) == UNION {S \in SUBSET DOMAIN ts : Independent(ts, S)}

\* filter removes the types f rejects and what depends on them, in any number
\* of steps, and nothing else.
RemovesExactly == pc = "renumber" => DOMAIN link \cap DOMAIN section.types = Kept(section.types)

\* After filter the n-th type is still the n-th of those that are kept, and
\* every reference leads, by position, to the type it led to before.  The
\* section that is written has the size of the one that was read, so the rest
\* of the object stays where it is, and no length check of dump fails.
SameGraph ==
  /\ pc \in {"dump", "Ok"} =>
       LET old == InOrder(Kept(section.types))
       IN  /\ Len(types) = Len(old)
           /\ \A i \in DOMAIN types :
                /\ types[i].kind = section.types[old[i]].kind
                /\ \A k \in DOMAIN types[i].refs :
                     LET r == section.types[old[i]].refs[k]
                     IN  IF r = 0 THEN types[i].refs[k] = 0
                         ELSE types[i].refs[k] \in DOMAIN old /\ old[types[i].refs[k]] = r
  /\ pc \notin {"mismatch", "bloated", "shrunk"}
  /\ pc = "Ok" => fixed = SectionLen(section)

\* The walk over a graph with cycles ends.
FilterEnds == <>(pc = "Ok")
=============================================================================
