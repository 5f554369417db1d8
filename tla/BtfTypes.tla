------------------------------ MODULE BtfTypes ------------------------------
(***************************************************************************)
(* redbpf/src/btf.rs: the .BTF section of an ELF object is parsed, names   *)
(* that the kernel would reject are overwritten in the string section, the *)
(* sizes and offsets of data sections are filled in from the ELF object,   *)
(* the types are dumped and loaded, and the type ids of maps are looked up.*)
(*                                                                         *)
(* The type section is a sequence of 32 bit words.  The string section is  *)
(* a table: a name is a sequence of bytes and name_off is its position, 0  *)
(* stands for the empty name; compilers write every name once, so types    *)
(* may share a string but strings do not overlap.  Of a byte it matters    *)
(* whether it is a digit, a dot, another character of identifiers, another *)
(* ASCII character, or belongs to a character of two bytes.                *)
(***************************************************************************)
EXTENDS Integers, Sequences, FiniteSets, SequencesExt

CONSTANTS
  Objects,   \* the objects: [decl, table, sections, symbols], decl being the types
             \* that the compiler encodes: [kind, off, ref, items]
  Maps,      \* names of maps
  MapBtfOf   \* per map: the name MAP_BTF_<map>

Byte1 == "c3"   \* the bytes of a character of two bytes
Byte2 == "a9"
Letters == {"_", "a", "b", "M", "S", "k", "v"}
Digits == {"9"}

NameMapBtf == <<"S">>      \* "MapBtf"
NameKeyType == <<"k">>     \* "key_type"
NameValueType == <<"v">>   \* "value_type"

VARIABLES
  object,  \* the object
  words,   \* raw_type_enc
  pc,      \* "parse", "sizes", "offsets", "load", "loaded", "rejected", "Err" or "panic"
  pos,     \* words of the type section that have been consumed
  table,   \* raw_str_enc
  types,   \* BTF::types: [raw, head, extra, members]
  dumped,  \* the words given to the kernel
  ids      \* per map: what get_map_type_ids has returned

vars == <<object, words, pc, pos, table, types, dumped, ids>>

NoIds == [ok |-> FALSE]

-----------------------------------------------------------------------------
(* Names                                                                   *)

\* CStr::to_string_lossy: a stray byte of a longer character is a character.
Starts(bytes) ==
  SelectSeq([i \in DOMAIN bytes |-> i],
            LAMBDA i : ~(bytes[i] = Byte2 /\ i > 1 /\ bytes[i - 1] = Byte1))

Chars(bytes) == [i \in DOMAIN Starts(bytes) |-> bytes[Starts(bytes)[i]]]

\* get_type_name, where the offset is in the table or 0
TypeName(tab, off) == IF off \in DOMAIN tab THEN Chars(tab[off]) ELSE <<>>

\* Mutant: a digit may come first.
FixIdentifierDigitFirst(name) ==
  [i \in DOMAIN name |-> IF name[i] \in Letters \cup Digits THEN name[i] ELSE "_"]

\* fix_btf_identifier
FixIdentifier(name) ==
  [i \in DOMAIN name |-> IF name[i] \in Letters \/ (i > 1 /\ name[i] \in Digits)
                         THEN name[i] ELSE "_"]

\* fix_btf_name
FixName(name) ==
  [i \in DOMAIN name |-> IF name[i] \in Letters \cup {"."} \/ (i > 1 /\ name[i] \in Digits)
                         THEN name[i] ELSE "_"]

\* BtfType::fix_name_str_section
FixStrSection(tab, off, fixed) ==
  [tab EXCEPT ![off] = [i \in DOMAIN @ |-> IF i \in DOMAIN fixed THEN fixed[i] ELSE @[i]]]

-----------------------------------------------------------------------------
(* Types                                                                   *)

\* BtfKind::from: from BTF_KIND_UNKN, 0, to BTF_KIND_FLOAT, 16
KindNames ==
  <<"Unknown", "Integer", "Pointer", "Array", "Structure", "Union", "Enumeration", "Forward",
    "TypeDef", "Volatile", "Constant", "Restrict", "Function", "FunctionProtocol", "Variable",
    "DataSection", "FloatingPoint">>

\* BtfTypeCommon::kind and vlen
KindBits(info) == (info \div 2^24) % 32
Kind(info) == KindNames[KindBits(info) + 1]
Vlen(info) == info % 2^16

\* words of extra data of a type: BtfType::byte_len without struct btf_type
ExtraLen(info) ==
  CASE Kind(info) \in {"Integer", "Variable"} -> 1
    [] Kind(info) = "Array" -> 3
    [] Kind(info) \in {"Structure", "Union", "DataSection"} -> 3 * Vlen(info)
    [] Kind(info) \in {"Enumeration", "FunctionProtocol"} -> 2 * Vlen(info)
    [] OTHER -> 0

\* External: the compiler's encoding: struct btf_type (name_off, info, and size
\* or type) and the extra data.
KindCode(kind) == IF kind = "DeclTag" THEN 17 ELSE (CHOOSE n \in DOMAIN KindNames : KindNames[n] = kind) - 1
Encode(d) ==
  <<d.off, KindCode(d.kind) * 2^24
           + (IF d.kind \in {"Integer", "Variable", "Array"} THEN 0 ELSE Len(d.items)), d.ref>>
  \o FlattenSeq(d.items)
EncodeAll(decl) == FlattenSeq([i \in DOMAIN decl |-> Encode(decl[i])])

Init ==
  /\ object \in Objects
  /\ words = EncodeAll(object.decl)
  /\ pc = "parse" /\ pos = 0 /\ table = object.table
  /\ types = <<>> /\ dumped = <<>> /\ ids = [m \in Maps |-> NoIds]

\* The i-th word of every record of n words of extra data
Column(extra, n, i) == [k \in 1 .. Len(extra) \div n |-> extra[n * (k - 1) + i]]

\* BtfTypeCommon::parse, read_extra and read_multiple_extra
ReadType(at) ==
  LET head == [off |-> words[at + 1], info |-> words[at + 2], size |-> words[at + 3]]
      extra == SubSeq(words, at + 4, at + 3 + ExtraLen(head.info))
      offs == Column(extra, 3, 1)
  IN  [raw |-> TypeName(table, head.off), head |-> head, extra |-> extra,
       members |-> IF Kind(head.info) \in {"Structure", "Union"}
                   THEN [k \in DOMAIN offs |-> TypeName(table, offs[k])] ELSE <<>>]

NeedsName == {"TypeDef", "Forward", "Function", "Variable", "DataSection"}
NoName == {"Pointer", "Volatile", "Constant", "Restrict", "Array", "FunctionProtocol"}
DotsAllowed == {"Variable", "DataSection"}

\* The name that a type should have.
NameFor(kind, raw) == IF kind \in DotsAllowed THEN FixName(raw) ELSE FixIdentifier(raw)

Fails(how) == pc' = how /\ UNCHANGED <<pos, table, types>>

\* Mutant: the type keeps the fixed name.
ParseTypeKeepsFixed ==
  LET t == ReadType(pos)
      kind == Kind(t.head.info)
      fixed == NameFor(kind, t.raw)
  IN  /\ pc = "parse" /\ pos < Len(words)
      /\ IF words[pos + 1] > Len(table) THEN Fails("Err")
         ELSE IF KindBits(words[pos + 2]) >= Len(KindNames) THEN Fails("panic")
         ELSE IF kind = "Unknown" \/ (kind \in NeedsName /\ t.head.off = 0) THEN Fails("Err")
         ELSE /\ types' = Append(types,
                   IF kind \in NoName THEN [t EXCEPT !.head.off = 0] ELSE [t EXCEPT !.raw = fixed])
              /\ table' = IF kind \notin NoName /\ t.head.off # 0 /\ fixed # t.raw
                          THEN FixStrSection(table, t.head.off, fixed) ELSE table
              /\ pos' = pos + 3 + Len(t.extra)
              /\ pc' = pc
      /\ UNCHANGED <<object, words, dumped, ids>>

\* One turn of parse_types: BtfType::parse
ParseType ==
  LET t == ReadType(pos)
      kind == Kind(t.head.info)
      fixed == NameFor(kind, t.raw)
  IN  /\ pc = "parse" /\ pos < Len(words)
      /\ IF words[pos + 1] > Len(table) THEN Fails("Err")
         ELSE IF KindBits(words[pos + 2]) >= Len(KindNames) THEN Fails("panic")
         ELSE IF kind = "Unknown" \/ (kind \in NeedsName /\ t.head.off = 0) THEN Fails("Err")
         ELSE /\ types' = Append(types, IF kind \in NoName THEN [t EXCEPT !.head.off = 0] ELSE t)
              /\ table' = IF kind \notin NoName /\ t.head.off # 0 /\ fixed # t.raw
                          THEN FixStrSection(table, t.head.off, fixed) ELSE table
              /\ pos' = pos + 3 + Len(t.extra)
              /\ pc' = pc
      /\ UNCHANGED <<object, words, dumped, ids>>

ParseDone ==
  /\ pc = "parse" /\ pos = Len(words)
  /\ pc' = "sizes"
  /\ UNCHANGED <<object, words, pos, table, types, dumped, ids>>

-----------------------------------------------------------------------------
(* fix_datasection                                                         *)

KindAt(ts, i) == Kind(ts[i].head.info)
OfKind(ts, kind) == {i \in DOMAIN ts : KindAt(ts, i) = kind}

\* The variables of a data section, whose records are type, offset and size
VarsOf(t) == Range(Column(t.extra, 3, 1))

\* get_section_header_by_name: the sections are [name, size].
HasSection(name) == \E s \in object.sections : Chars(s.name) = name
SectionNamed(name) == CHOOSE s \in object.sections : Chars(s.name) = name

FixSizes ==
  /\ pc = "sizes"
  /\ IF \A i \in OfKind(types, "DataSection") : HasSection(types[i].raw)
     THEN /\ types' = [i \in DOMAIN types |->
               IF i \in OfKind(types, "DataSection")
               THEN [types[i] EXCEPT !.head.size = SectionNamed(types[i].raw).size] ELSE types[i]]
          /\ pc' = "offsets"
     ELSE pc' = "Err" /\ types' = types
  /\ UNCHANGED <<object, words, pos, table, dumped, ids>>

Static(v) == v.extra[1] = 0   \* BTF_VAR_STATIC
HasSymbol(name) == \E s \in object.symbols : Chars(s.name) = name /\ s.global
SymbolNamed(name) == CHOOSE s \in object.symbols : Chars(s.name) = name /\ s.global

FixOffsets ==
  LET listed == UNION {VarsOf(types[i]) : i \in OfKind(types, "DataSection")}
      global == {v \in listed \cap OfKind(types, "Variable") : ~Static(types[v])}
      Offset(v) == SymbolNamed(types[v].raw).value
  IN  /\ pc = "offsets"
      /\ IF listed \subseteq OfKind(types, "Variable") /\ \A v \in global : HasSymbol(types[v].raw)
         THEN /\ types' = [i \in DOMAIN types |->
                   IF i \in OfKind(types, "DataSection")
                   THEN [types[i] EXCEPT !.extra = [w \in DOMAIN @ |->
                            IF w % 3 = 2 /\ @[w - 1] \in global THEN Offset(@[w - 1]) ELSE @[w]]]
                   ELSE types[i]]
              /\ pc' = "load"
         ELSE pc' = "Err" /\ types' = types
      /\ UNCHANGED <<object, words, pos, table, dumped, ids>>

-----------------------------------------------------------------------------
(* dump, load and the look-ups                                             *)

\* BtfType::dump
DumpType(t) == <<t.head.off, t.head.info, t.head.size>> \o t.extra

\* External: the names that the kernel accepts
Accepted(kind, name) ==
  \A i \in DOMAIN name :
    name[i] \in Letters \/ (name[i] \in Digits /\ i > 1) \/ (name[i] = "." /\ kind \in DotsAllowed)

NamesAccepted ==
  \A i \in DOMAIN types :
    types[i].head.off # 0 => Accepted(KindAt(types, i), table[types[i].head.off])

\* BTF::load; the kernel may reject what it checks beyond names.
Load(accepts) ==
  /\ pc = "load"
  /\ dumped' = FlattenSeq([i \in DOMAIN types |-> DumpType(types[i])])
  /\ pc' = IF NamesAccepted /\ accepts THEN "loaded" ELSE "rejected"
  /\ UNCHANGED <<object, words, pos, table, types, ids>>

First(S) == IF S = {} THEN 0 ELSE CHOOSE i \in S : \A j \in S : i <= j

\* The first type of a kind and a name: find_type_id
FindTypeId(name, kind) == First({i \in OfKind(types, kind) : types[i].raw = name})

\* The type of the first member of a name, whose records are name_off, type, offset
MemberNamed(t, name) ==
  LET k == First({k \in DOMAIN t.members : t.members[k] = name})
  IN  IF k = 0 THEN 0 ELSE Column(t.extra, 3, 2)[k]

\* get_map_type_ids for a map
MapTypeIds(m) ==
  LET var == FindTypeId(MapBtfOf[m], "Variable")
      st == IF var = 0 THEN 0 ELSE types[var].head.size
  IN  IF st \notin DOMAIN types \/ KindAt(types, st) # "Structure" \/ types[st].raw # NameMapBtf
         \/ MemberNamed(types[st], NameKeyType) = 0 \/ MemberNamed(types[st], NameValueType) = 0
      THEN NoIds
      ELSE [ok |-> TRUE, key |-> MemberNamed(types[st], NameKeyType),
            value |-> MemberNamed(types[st], NameValueType)]

GetMapTypeIds(m) ==
  /\ pc = "loaded" /\ ids[m] # MapTypeIds(m)
  /\ ids' = [ids EXCEPT ![m] = MapTypeIds(m)]
  /\ UNCHANGED <<object, words, pc, pos, table, types, dumped>>

Next ==
  \/ ParseType \/ ParseDone \/ FixSizes \/ FixOffsets
  \/ \E accepts \in BOOLEAN : Load(accepts)
  \/ \E m \in Maps : GetMapTypeIds(m)

Spec == Init /\ [][Next]_vars

-----------------------------------------------------------------------------
(* Properties                                                              *)

Parsed == pc \notin {"parse", "Err", "panic"}

OneByteChars(name) == \A i \in DOMAIN name : name[i] \notin {Byte1, Byte2}

\* After parse_types every name of a type is one that the kernel accepts for
\* its kind, although the strings are shared by types with different rules and
\* overwritten in place while the types are read one after the other.  (Names
\* with characters of several bytes are left out: fix_btf_identifier puts one
\* byte in the place of such a character, and the bytes at the end stay.)
NamesFixed ==
  Parsed => \A i \in DOMAIN types :
              LET off == types[i].head.off
              IN  off # 0 /\ OneByteChars(object.table[off])
                    => Accepted(KindAt(types, i), table[off])

\* The name that the compiler gave to a type or a member.
Given(off) == TypeName(object.table, off)

\* What get_map_type_ids should find, in terms of the types as they were given.
GivenIds(m) ==
  LET decl == object.decl
      var == First({i \in DOMAIN decl : decl[i].kind = "Variable" /\ Given(decl[i].off) = MapBtfOf[m]})
      st == IF var = 0 THEN 0 ELSE decl[var].ref
      Member(name) == First({k \in DOMAIN decl[st].items : Given(decl[st].items[k][1]) = name})
  IN  IF st \in DOMAIN decl /\ decl[st].kind = "Structure" /\ Given(decl[st].off) = NameMapBtf
           /\ Member(NameKeyType) # 0 /\ Member(NameValueType) # 0
      THEN [ok |-> TRUE, key |-> decl[st].items[Member(NameKeyType)][2],
            value |-> decl[st].items[Member(NameValueType)][2]]
      ELSE NoIds

\* What the kernel should be given for a type: its encoding, without a name
\* where the kind has none, and for a data section the size of the ELF section
\* and the offsets of the symbols that have the names in the source.
GivenType(i) ==
  LET d == object.decl[i]
      Item(k) ==
        LET v == object.decl[d.items[k][1]]
        IN  IF v.items[1][1] = 0 THEN d.items[k]
            ELSE <<d.items[k][1], SymbolNamed(Given(v.off)).value, d.items[k][3]>>
  IN  IF d.kind \in NoName THEN Encode([d EXCEPT !.off = 0])
      ELSE IF d.kind # "DataSection" THEN Encode(d)
      ELSE Encode([d EXCEPT !.ref = SectionNamed(Given(d.off)).size,
                            !.items = [k \in DOMAIN @ |-> Item(k)]])

\* parse_elf may fail: a type is not known or lacks a name, or the ELF object
\* has no section for a data section or no symbol for a variable.
GivenFault ==
  LET decl == object.decl
  IN  \E i \in DOMAIN decl :
        \/ decl[i].kind = "Unknown" \/ decl[i].off > Len(object.table)
        \/ decl[i].kind \in NeedsName /\ decl[i].off = 0
        \/ /\ decl[i].kind = "DataSection"
           /\ \/ ~HasSection(Given(decl[i].off))
              \/ \E k \in DOMAIN decl[i].items :
                   LET v == decl[decl[i].items[k][1]]
                   IN  v.items[1][1] # 0 /\ ~HasSymbol(Given(v.off))

\* The kernel gets all types in the order and with the contents they had, and
\* sections, symbols and maps are found by the names in the source, although
\* the strings have been overwritten by then; parse_elf fails for no other
\* reason than a fault of the object.
LookupsRight ==
  /\ pc = "Err" => GivenFault
  /\ dumped # <<>> => dumped = FlattenSeq([i \in DOMAIN object.decl |-> GivenType(i)])
  /\ pc = "loaded" => \A m \in Maps : MapTypeIds(m) = GivenIds(m) /\ ids[m] \in {NoIds, GivenIds(m)}

\* BtfType::parse on a kind that redBPF does not know: "we can not keep
\* progressing from this point" and an error is returned.
NewKindsRefused == pc # "panic"
=============================================================================
