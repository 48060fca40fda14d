---------------------------- MODULE AddressFilter ----------------------------
(***************************************************************************)
(* From a process to the capture filter, in two programs: filterGetter.exe *)
(* (filter_getter.c) prints the UDP addresses on which a process listens,  *)
(* the shell hands the text to transport.exe, whose parseFilter            *)
(* (flitter_parser.c) turns it into the hosts and ports to capture.        *)
(* RemoteGetter has the tool that may be run in place of filterGetter.exe. *)
(*                                                                         *)
(* The text matters here, since addresses are told apart by strstr and     *)
(* taken apart by strtok: it is a sequence of digits, dots and dashes.     *)
(***************************************************************************)
EXTENDS Integers, SequencesExt

CONSTANTS
  Ips,       \* local addresses as the 32-bit numbers of the UDP table
  Ports,
  MaxProcesses, \* bound on the processes that run
  MaxRows,   \* bound on the rows of the UDP table
  TextRoom,  \* characters that fit in filterGetter's buffer (2047)
  Octet,     \* number of values of a byte of an address (256)
  LongMax,   \* the largest long (2^31 - 1)
  Tools      \* the getters that may be run: "local" is filterGetter.exe

ASSUME FilterAssumption ==
  /\ Ips \subseteq 0 .. (Octet * Octet * Octet * Octet) - 1 /\ Ports \subseteq Nat
  /\ MaxProcesses \in Nat /\ MaxRows \in Nat /\ TextRoom \in Nat \ {0}
  /\ Octet \in Nat \ {0, 1} /\ LongMax \in Nat
  /\ Tools \subseteq {"local", "remote"}

VARIABLES
  tool,      \* the getter that is run
  pc,        \* "lookup", "read", "scan" or "lines", "parse"; then "capture"
             \*   or "exit"
  processes, \* for each process, by its pid, whether it has the wanted name
  pid,       \* what getPidByName returned
  table,     \* the UDP table read
  row,       \* the row that is looked at next
  text,      \* strBuffer of createFilterForPid
  rest,      \* what strtok_r has left of the argument -addresses
  clauses    \* the clauses of the filter of parseFilter

filterVars == <<tool, pc, processes, pid, table, row, text, rest, clauses>>

Dot == 10
Dash == 11

Rows == [pid : 1 .. MaxProcesses, ip : Ips, port : Ports]
Tables == UNION {[1 .. n -> Rows] : n \in 0 .. MaxRows}

(* %lu and %hu                                                             *)
Decimal[n \in Nat] ==
  IF n < 10 THEN <<n>> ELSE Append(Decimal[n \div 10], n % 10)

(* addrPort                                                                *)
TextOf(r) == Decimal[r.ip] \o <<Dot>> \o Decimal[r.port]

(* strstr                                                                  *)
OccursIn(s, t) ==
  \E i \in 0 .. Len(t) - Len(s) : SubSeq(t, i + 1, i + Len(s)) = s

(* Mutants: addresses already in the text are listed again; one port of a  *)
(* host is enough.                                                         *)
NeverListed(r) == FALSE
HostListed(r) == OccursIn(Decimal[r.ip] \o <<Dot>>, text)

AlreadyListed(r) == OccursIn(TextOf(r), text)

(* Mutant: sprintf.                                                        *)
FitAnything(t) == t

(* snprintf into a buffer of bounded size                                  *)
Fit(t) == SubSeq(t, 1, IF Len(t) < TextRoom THEN Len(t) ELSE TextRoom)

(* The number that is written in decimal.                                  *)
Number[digits \in Seq(0 .. 9)] ==
  IF digits = <<>> THEN 0 ELSE 10 * Number[Front(digits)] + Last(digits)

(* The outcomes of atol: beyond a long it is undefined; a C runtime may    *)
(* return the largest long, or wrap, and then the conversion to unsigned   *)
(* gives the number back.                                                  *)
Atol(digits) ==
  IF Number[digits] <= LongMax THEN {Number[digits]} ELSE {LongMax, Number[digits]}

(* What each byte of an address counts, the shifts by 0, 8, 16 and 24.     *)
Place == <<1, Octet, Octet * Octet, Octet * Octet * Octet>>

(* Mutant: the bytes in the opposite order.                                *)
OctetsReversed(ip) == [k \in 0 .. 3 |-> (ip \div Place[4 - k]) % Octet]

(* convertIntToIp                                                          *)
Octets(ip) == [k \in 0 .. 3 |-> (ip \div Place[k + 1]) % Octet]

(* strtok_r: what follows leading dashes, up to the next dash.             *)
Token(t) ==
  LET first == SelectInSeq(t, LAMBDA c : c # Dash)
      dash == SelectInSubSeq(t, first, Len(t), LAMBDA c : c = Dash)
      last == IF dash = 0 THEN Len(t) ELSE dash - 1
  IN  IF first = 0
      THEN [some |-> FALSE, chars |-> <<>>, after |-> <<>>]
      ELSE [some |-> TRUE, chars |-> SubSeq(t, first, last),
            after |-> SubSeq(t, last + 2, Len(t))]

(* strchr                                                                  *)
DotIn(s) == SelectInSeq(s, LAMBDA c : c = Dot)

FilterInit ==
  /\ tool \in Tools
  /\ pc = "lookup"
  /\ processes \in UNION {[1 .. n -> BOOLEAN] : n \in 0 .. MaxProcesses}
  /\ pid = 0 /\ table = <<>> /\ row = 1
  /\ text = <<>> /\ rest = <<>> /\ clauses = <<>>

-----------------------------------------------------------------------------
(* filterGetter.exe *)

(* getPidByName: the first process of that name, or 0.  The two getters    *)
(* have the same one.                                                      *)
FirstNamed == SelectInSeq(processes, LAMBDA named : named)

FindProcess ==
  /\ pc = "lookup" /\ FirstNamed # 0
  /\ pid' = FirstNamed
  /\ pc' = "read"
  /\ UNCHANGED <<tool, processes, table, row, text, rest, clauses>>

(* Messages go to stderr, nothing to stdout.                               *)
NoProcess ==
  /\ pc = "lookup" /\ FirstNamed = 0
  /\ pc' = "parse"
  /\ UNCHANGED <<tool, processes, pid, table, row, text, rest, clauses>>

(* No memory, or GetExtendedUdpTable fails.                                *)
TableUnreadable ==
  /\ pc = "read"
  /\ pc' = "parse"
  /\ UNCHANGED <<tool, processes, pid, table, row, text, rest, clauses>>

ReadTable ==
  /\ tool = "local" /\ pc = "read"
  /\ table' \in Tables
  /\ pc' = "scan"
  /\ UNCHANGED <<tool, processes, pid, row, text, rest, clauses>>

Own(r) == r.pid = pid

Scanning == pc = "scan" /\ row <= Len(table)

SkipRow ==
  /\ Scanning /\ ~Own(table[row])
  /\ row' = row + 1
  /\ UNCHANGED <<tool, pc, processes, pid, table, text, rest, clauses>>

(* The text of the address occurs in what is listed already.               *)
PassOverRow ==
  /\ Scanning /\ Own(table[row]) /\ AlreadyListed(table[row])
  /\ row' = row + 1
  /\ UNCHANGED <<tool, pc, processes, pid, table, text, rest, clauses>>

ListRow ==
  /\ Scanning /\ Own(table[row]) /\ ~AlreadyListed(table[row])
  /\ text' = Fit(text \o <<Dash>> \o TextOf(table[row]))
  /\ row' = row + 1
  /\ UNCHANGED <<tool, pc, processes, pid, table, rest, clauses>>

Got == \E i \in 1 .. row - 1 : Own(table[i])

(* The first dash is cut off; the text is printed and becomes the argument *)
(* -addresses of transport.exe.                                            *)
HandOver ==
  /\ pc = "scan" /\ row > Len(table) /\ Got
  /\ text' = Tail(text)
  /\ rest' = text'
  /\ pc' = "parse"
  /\ UNCHANGED <<tool, processes, pid, table, row, clauses>>

NothingToHandOver ==
  /\ pc = "scan" /\ row > Len(table) /\ ~Got
  /\ pc' = "parse"
  /\ UNCHANGED <<tool, processes, pid, table, row, text, rest, clauses>>

-----------------------------------------------------------------------------
(* transport.exe *)

ParseToken ==
  LET t == Token(rest)
      dot == DotIn(t.chars)
  IN  /\ pc = "parse" /\ t.some /\ dot # 0
      /\ \E ip \in Atol(SubSeq(t.chars, 1, dot - 1)) :
           clauses' = Append(clauses, [host |-> Octets(ip),
                                       port |-> SubSeq(t.chars, dot + 1, Len(t.chars))])
      /\ rest' = t.after
      /\ UNCHANGED <<tool, pc, processes, pid, table, row, text>>

RejectToken ==
  /\ pc = "parse" /\ Token(rest).some /\ DotIn(Token(rest).chars) = 0
  /\ pc' = "exit"
  /\ UNCHANGED <<tool, processes, pid, table, row, text, rest, clauses>>

(* An empty argument, or none where the shell drops an empty one.          *)
RejectEmpty ==
  /\ pc = "parse" /\ ~Token(rest).some /\ clauses = <<>>
  /\ pc' = "exit"
  /\ UNCHANGED <<tool, processes, pid, table, row, text, rest, clauses>>

StartCapture ==
  /\ pc = "parse" /\ ~Token(rest).some /\ clauses # <<>>
  /\ pc' = "capture"
  /\ UNCHANGED <<tool, processes, pid, table, row, text, rest, clauses>>

Ended ==
  /\ pc \in {"capture", "exit"}
  /\ UNCHANGED filterVars

FilterNext ==
  \/ FindProcess \/ NoProcess \/ TableUnreadable \/ ReadTable
  \/ SkipRow \/ PassOverRow \/ ListRow
  \/ HandOver \/ NothingToHandOver
  \/ ParseToken \/ RejectToken \/ RejectEmpty \/ StartCapture \/ Ended

FilterSpec == FilterInit /\ [][FilterNext]_filterVars

-----------------------------------------------------------------------------
OwnRows == {table[i] : i \in {j \in DOMAIN table : Own(table[j])}}

(* The number that a host of the filter stands for.                        *)
HostNumber(host) ==
  host[0] + Octet * (host[1] + Octet * (host[2] + Octet * host[3]))

(* A clause captures the traffic of the address of a row.                  *)
IsFor(clause, r) ==
  /\ clause.port = Decimal[r.port]
  /\ HostNumber(clause.host) = r.ip

(* The address is beyond a long and atol has put the largest one in its    *)
(* place: the clause captures another host's traffic.                      *)
InsteadOf(clause, r) ==
  /\ clause.port = Decimal[r.port]
  /\ r.ip > LongMax /\ HostNumber(clause.host) = LongMax

MadeFrom(clause, r) == IsFor(clause, r) \/ InsteadOf(clause, r)

(* filterGetter's buffer was filled, the last address may be cut.          *)
Filled == Len(text) >= TextRoom - 1

(* Every variable has its type.                                            *)
FilterTypeOK ==
  LET Characters == 0 .. 11 IN
  /\ tool \in Tools
  /\ pc \in {"lookup", "read", "scan", "lines", "parse", "capture", "exit"}
  /\ DOMAIN processes \in {1 .. n : n \in 0 .. MaxProcesses}
  /\ pid \in {0} \cup {p \in DOMAIN processes : processes[p]}
  /\ table \in Tables
  /\ row \in 1 .. MaxRows + 1
  /\ text \in Seq(Characters) /\ Len(text) <= TextRoom
  /\ rest \in Seq(Characters) /\ Len(rest) <= TextRoom
  /\ clauses \in Seq([host : [0 .. 3 -> 0 .. Octet - 1], port : Seq(0 .. Dot)])

(* Nobody else's traffic is captured: what parseFilter makes of the text   *)
(* of createFilterForPid are addresses of the process.  Two exceptions:    *)
(* the largest long in place of an address of the process beyond it        *)
(* (flitter_parser.c:30), and the last of a filled buffer, which may be    *)
(* cut (filter_getter.c:61).                                               *)
CapturesOwnOnly ==
  tool = "local" /\ pc = "capture" =>
    /\ clauses # <<>>
    /\ \A i \in DOMAIN clauses :
         \/ \E r \in OwnRows : IsFor(clauses[i], r)
         \/ \E r \in OwnRows : InsteadOf(clauses[i], r)
         \/ Filled /\ i = Len(clauses)

(* Which addresses are not captured, short of a filled buffer: those       *)
(* beyond a long for which the filter has the largest long                 *)
(* (flitter_parser.c:30), and those whose text is part of the text of      *)
(* another, from which a clause of the filter was made                     *)
(* (filter_getter.c:59).                                                   *)
LostOnlyInOthers ==
  tool = "local" /\ pc = "capture" /\ ~Filled =>
    \A r \in OwnRows :
      \/ \E i \in DOMAIN clauses : IsFor(clauses[i], r)
      \/ \E i \in DOMAIN clauses : InsteadOf(clauses[i], r)
      \/ \E other \in OwnRows \ {r} :
           /\ OccursIn(TextOf(r), TextOf(other))
           /\ \E i \in DOMAIN clauses : MadeFrom(clauses[i], other)

(* No address is in the filter twice, whichever getter is run and though a *)
(* process may have several sockets on one; addresses beyond a long may be *)
(* confused with each other (filter_getter.c:59, flitter_parser.c:30,      *)
(* filter_getter_for_remote_addr.c:119).                                   *)
NoAddressTwice ==
  pc = "capture" /\ ~Filled =>
    \A i, j \in DOMAIN clauses :
      i < j /\ clauses[i] = clauses[j] => HostNumber(clauses[i].host) = LongMax

(* readme.md:23: filterGetter.exe finds out which UDP addresses the        *)
(* process listens on; all of them are captured.                           *)
CapturesAllOwn ==
  pc = "capture" =>
    \A r \in OwnRows : \E i \in DOMAIN clauses : IsFor(clauses[i], r)
=============================================================================
