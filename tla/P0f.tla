-------------------------------- MODULE P0f ---------------------------------
(***************************************************************************)
(* The p0f example: the XDP program of                                     *)
(* examples/example-probes/src/p0f/main.rs, which reads the options of TCP *)
(* SYN packets into a TcpSignature (p0f/mod.rs).                           *)
(*                                                                         *)
(* Every read of the packet is recorded.  The bytes of the options are     *)
(* chosen when they are read; no byte is read twice.                       *)
(***************************************************************************)
EXTENDS NetBuffer

CONSTANT OptionLens   \* the values of the length byte of an option

MAX_TCP_OPT == 11
MaxLoops == MAX_TCP_OPT - 6

VARIABLES
  syn,     \* the packet
  pc,      \* "eth", "tcp", "option", "eol", "after", "true", "false"
  pos,     \* tcp_option_pos
  n,       \* iterations of the loop over the options
  k,       \* iterations of the loop over the padding
  cnt,     \* TcpSignature::opt_cnt
  bad,     \* the quirk OPT_BAD
  lo, hi,  \* the addresses read by the last step: lo up to hi - 1
  faulty   \* the options are malformed, or do not fit their header (history)

p0fVars == <<syn, pc, pos, n, k, cnt, bad, lo, hi, faulty>>

P0fInit ==
  /\ syn \in Packets
  /\ pc = "eth" /\ pos = 0 /\ n = 0 /\ k = 0 /\ cnt = 0
  /\ bad = FALSE /\ faulty = FALSE
  /\ lo = syn.start /\ hi = syn.start

Tcp == Ip(syn) + syn.ihl * 4
OptionEnd == Tcp + syn.doff * 4

Reads(addr, size) == lo' = addr /\ hi' = addr + size
ReadsNothing == lo' = syn.start /\ hi' = syn.start

-----------------------------------------------------------------------------
\* p0f_extractor and parse_ipv4_tcp_signatures: the ethernet and IP headers are
\* in the packet, the IP header has its minimal length, the protocol is TCP and
\* the TCP header is in the packet; the packet is a SYN to a web server.
Headers ==
  /\ pc = "eth"
  /\ IF Ip(syn) # Err /\ syn.ihl * 4 >= IpLen /\ syn.proto = "TCP" /\ Tcp + TcpLen <= syn.end
     THEN /\ pc' \in {"tcp", "false"}      \* ports and flags are anything
          /\ Reads(Tcp, TcpLen)
     ELSE pc' = "false" /\ ReadsNothing
  /\ UNCHANGED <<syn, pos, n, k, cnt, bad, faulty>>

\* parse_tcp_signature up to the loop.
Signature ==
  /\ pc = "tcp"
  /\ LET first == PtrAfter(syn, Tcp, TcpLen, 1)
     IN  IF first = Err \/ OptionEnd > syn.end
         THEN pc' = "false" /\ pos' = pos
         ELSE pc' = "option" /\ pos' = first
  /\ ReadsNothing
  /\ UNCHANGED <<syn, n, k, cnt, bad, faulty>>

\* The loop's own condition.
LoopEnds ==
  /\ pc = "option"
  /\ IF n = MaxLoops THEN pc' = "after" ELSE pos >= OptionEnd /\ pc' = "true"
  /\ ReadsNothing
  /\ UNCHANGED <<syn, pos, n, k, cnt, bad, faulty>>

\* An option of parse_tcp_option: the kind is read and stored; then the rest,
\* of `size' bytes, is read, and the position moves by `size', each only if the
\* packet has the bytes, and one more for the move.  `isBad' sets OPT_BAD.
Option(size, isBad) ==
  /\ pc = "option" /\ pos < OptionEnd /\ n < MaxLoops
  /\ cnt' = cnt + 1
  /\ LET fits == pos + 2 <= syn.end
         whole == fits /\ pos + 1 + size <= syn.end
         moves == fits /\ pos + 2 + size <= syn.end
     IN  /\ Reads(pos, IF whole THEN 1 + size ELSE 1)
         /\ pos' = IF moves THEN pos + 1 + size ELSE IF fits THEN pos + 1 ELSE pos
         /\ pc' = IF moves THEN "option" ELSE "after"
         /\ bad' = (bad \/ (whole /\ isBad))
         /\ faulty' = (faulty \/ isBad \/ pos + 1 + size > OptionEnd)
  /\ n' = n + 1
  /\ UNCHANGED <<syn, k>>

Nop == Option(0, FALSE)
Mss(len) == Option(3, len # 4)
Wscale(len) == Option(2, len # 3)
Sackok(len) == Option(1, len # 2)
Tstamp(len) == Option(9, len # 10)

\* SACK: the length decides how far the position moves; a length that is none
\* of the four ends the parsing with OPT_BAD.
Sack(len) ==
  /\ pc = "option" /\ pos < OptionEnd /\ n < MaxLoops
  /\ cnt' = cnt + 1
  /\ LET fits == pos + 2 <= syn.end
         read == fits /\ pos + 10 <= syn.end
         moves == read /\ len \in {10, 18, 26, 34} /\ pos + 1 + len <= syn.end
     IN  /\ Reads(pos, IF read THEN 10 ELSE 1)
         /\ pos' = IF moves THEN pos + len ELSE IF fits THEN pos + 1 ELSE pos
         /\ pc' = IF moves THEN "option" ELSE "after"
         /\ bad' = (bad \/ (read /\ len \notin {10, 18, 26, 34}))
         /\ faulty' = (faulty \/ len \notin {10, 18, 26, 34} \/ pos + len > OptionEnd)
  /\ n' = n + 1
  /\ UNCHANGED <<syn, k>>

\* EOL: the padding after it is looked at.
Eol ==
  /\ pc = "option" /\ pos < OptionEnd /\ n < MaxLoops
  /\ cnt' = cnt + 1
  /\ Reads(pos, 1)
  /\ pos' = IF pos + 2 <= syn.end THEN pos + 1 ELSE pos
  /\ pc' = IF pos + 2 <= syn.end /\ pos + 1 < OptionEnd THEN "eol" ELSE "after"
  /\ n' = n + 1
  /\ UNCHANGED <<syn, k, bad, faulty>>

\* Mutant: the end of the packet is not looked at in the padding.
EolPaddingRuns ==
  /\ pc = "eol"
  /\ Reads(pos, 1)
  /\ \E zero \in BOOLEAN :
       IF zero
       THEN pos' = pos + 1 /\ k' = k + 1 /\ pc' = IF k + 1 = 4 THEN "after" ELSE "eol"
       ELSE pc' = "after" /\ UNCHANGED <<pos, k>>
  /\ UNCHANGED <<syn, n, cnt, bad, faulty>>

\* An iteration of the loop over at most four bytes of padding.
EolPadding ==
  /\ pc = "eol"
  /\ Reads(pos, 1)
  /\ \E zero \in BOOLEAN :
       IF zero /\ pos + 2 <= syn.end /\ pos + 2 <= OptionEnd
       THEN pos' = pos + 1 /\ k' = k + 1 /\ pc' = IF k + 1 = 4 THEN "after" ELSE "eol"
       ELSE pc' = "after" /\ UNCHANGED <<pos, k>>
  /\ UNCHANGED <<syn, n, cnt, bad, faulty>>

\* After the loop.
After ==
  /\ pc = "after"
  /\ pc' = "true"
  /\ bad' = (bad \/ pos # OptionEnd)
  /\ ReadsNothing
  /\ UNCHANGED <<syn, pos, n, k, cnt, faulty>>

P0fNext ==
  \/ Headers \/ Signature \/ LoopEnds \/ Nop
  \/ \E len \in OptionLens : Mss(len) \/ Wscale(len) \/ Sackok(len) \/ Sack(len) \/ Tstamp(len)
  \/ Eol \/ EolPadding \/ After

P0fSpec == P0fInit /\ [][P0fNext]_p0fVars

-----------------------------------------------------------------------------
\* Every read of the parser is inside the packet, whatever lengths the headers
\* and the options claim; and add_opt stays inside its array: "it is always
\* safe because the tcp option loop count <= MAX_TCP_OPT" (p0f/mod.rs:123).
ParserInside ==
  /\ syn.start <= lo /\ (lo < hi => hi <= syn.end)
  /\ cnt <= MAX_TCP_OPT

\* "OPT_BAD ... Problem parsing TCP options" (p0f/mod.rs:51): the quirk is set
\* only for options that are malformed or do not fit their header.
OptBadForBadOptions == pc = "true" /\ bad => faulty
=============================================================================
