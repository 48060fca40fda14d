---------------------------- MODULE RemoteGetter ----------------------------
(***************************************************************************)
(* The other getter, filterGetterForRemoteAddr.exe                         *)
(* (filter_getter_for_remote_addr.c): it runs netstat and lists the remote *)
(* addresses of the process, in the same text as filterGetter.exe but with *)
(* a dash after each address, which transport.exe parses in the same way.  *)
(*                                                                         *)
(* The output of netstat is read from a pipe in pieces and each piece is   *)
(* taken apart into lines on its own, so that a line may be cut in two.    *)
(***************************************************************************)
EXTENDS AddressFilter

CONSTANTS
  MaxLines,  \* bound on the lines that netstat prints
  PidSpan    \* the number of process ids of five digits (100000)

ASSUME RemoteAssumption == MaxLines \in Nat /\ PidSpan \in Nat \ {0}

VARIABLES
  output,   \* the UDP lines that netstat prints
  line,     \* the line that is looked at next
  cuts      \* the lines that the end of a piece has cut (ghost)

remoteVars == <<output, line, cuts>>
gettersVars == <<filterVars, remoteVars>>

(* A line with a * names no remote address.                                *)
Star == [pid |-> 0, ip |-> 0, port |-> 0]
Lines == Rows \cup {Star}
Outputs == UNION {[1 .. n -> Lines] : n \in 0 .. MaxLines}

GettersInit == FilterInit /\ output = <<>> /\ line = 1 /\ cuts = 0

-----------------------------------------------------------------------------
(* A pipe or the process of netstat may fail: then, as in TableUnreadable, *)
(* nothing is printed.                                                     *)
RunNetstat ==
  /\ tool = "remote" /\ pc = "read"
  /\ output' \in Outputs
  /\ pc' = "lines"
  /\ UNCHANGED <<tool, processes, pid, table, row, text, rest, clauses, line, cuts>>

(* The last six characters of a line: five digits and the carriage return. *)
LinePid(l) == l.pid % PidSpan

(* Mutant: the process id is not looked at.                                *)
AnyonesLine(l) == l # Star

OwnLine(l) == l # Star /\ LinePid(l) = pid

(* addrPort                                                                *)
RemoteText(l) == TextOf(l) \o <<Dash>>

(* Mutant: the host alone is looked for.                                   *)
RemoteHostListed(l) == OccursIn(Decimal[l.ip] \o <<Dot>>, text)

RemoteListed(l) == OccursIn(RemoteText(l), text)

(* strncat of as much as there is room for, unless it is there already.    *)
WithRemote(l) == IF RemoteListed(l) THEN text ELSE Fit(text \o RemoteText(l))

NextLine ==
  /\ pc = "lines" /\ line <= Len(output)
  /\ line' = line + 1
  /\ UNCHANGED <<tool, pc, processes, pid, table, row, rest, clauses, output>>

SkipLine == NextLine /\ ~OwnLine(output[line]) /\ UNCHANGED <<text, cuts>>

ListRemote ==
  /\ NextLine /\ OwnLine(output[line])
  /\ text' = WithRemote(output[line])
  /\ UNCHANGED cuts

(* A line is cut and its two parts are read as lines.  At most one of them *)
(* has the word UDP in it.  Its last six characters may be part of a       *)
(* process id, or none, and then linePid is what it was; its third word    *)
(* may be part of an address, or missing, and then remoteAddr is what it   *)
(* was.  So some address may be listed, or none.                           *)
CutLine ==
  /\ NextLine
  /\ cuts' = cuts + 1
  /\ \/ UNCHANGED text
     \/ \E l \in Rows : text' = WithRemote(l)

(* The last dash is cut off, if it is there.                               *)
HandOverRemotes ==
  /\ pc = "lines" /\ line > Len(output)
  /\ text' = IF text # <<>> /\ Last(text) = Dash THEN Front(text) ELSE text
  /\ rest' = text'
  /\ pc' = "parse"
  /\ UNCHANGED <<tool, processes, pid, table, row, clauses, remoteVars>>

GettersNext ==
  \/ FilterNext /\ UNCHANGED remoteVars
  \/ RunNetstat \/ SkipLine \/ ListRemote \/ CutLine \/ HandOverRemotes

GettersSpec == GettersInit /\ [][GettersNext]_gettersVars

-----------------------------------------------------------------------------
(* Every variable has its type.                                            *)
RemoteTypeOK ==
  /\ FilterTypeOK
  /\ output \in Outputs
  /\ line \in 1 .. MaxLines + 1 /\ line <= Len(output) + 1
  /\ cuts \in 0 .. line - 1

PeerLines == {output[i] : i \in {j \in DOMAIN output : output[j] # Star /\ output[j].pid = pid}}

(* Lines of others, with ids of more digits than are read, that pass for   *)
(* lines of the process.                                                   *)
MisreadLines ==
  {output[i] : i \in {j \in DOMAIN output :
     output[j] # Star /\ output[j].pid >= PidSpan /\ LinePid(output[j]) = pid}}

(* The addresses that a clause of the filter captures, and those from      *)
(* which one may have been made.                                           *)
CapturedRows == {r \in Rows : \E i \in DOMAIN clauses : IsFor(clauses[i], r)}
NamedRows == {r \in Rows : \E i \in DOMAIN clauses : MadeFrom(clauses[i], r)}

(* A clause is wrong if it captures no address to which the process sends. *)
(* Wrong clauses are those with the largest long in place of such an       *)
(* address beyond it (flitter_parser.c:30), those made from a line that is *)
(* misread for its id of six digits, at most one for each line that is     *)
(* cut, and the cut end of a filled buffer                                 *)
(* (filter_getter_for_remote_addr.c:91-121); there are no others.          *)
CapturesPeersOnly ==
  tool = "remote" /\ pc = "capture" =>
    LET Wrong == {i \in DOMAIN clauses : ~\E l \in PeerLines : IsFor(clauses[i], l)}
    IN  Cardinality({i \in Wrong :
                      /\ ~\E l \in PeerLines : InsteadOf(clauses[i], l)
                      /\ ~\E l \in MisreadLines : MadeFrom(clauses[i], l)})
          <= cuts + (IF Filled THEN 1 ELSE 0)

(* Of a process whose id has five digits at most, and short of a filled    *)
(* buffer: an address to which it sends is not captured because it is      *)
(* beyond a long and the filter has the largest long                       *)
(* (flitter_parser.c:30), because its text is the end of the text of       *)
(* another from which a clause was made, or because its line was cut;      *)
(* no others are lost (filter_getter_for_remote_addr.c:101, 119).          *)
LostPeersInOthers ==
  tool = "remote" /\ pc = "capture" /\ ~Filled /\ pid < PidSpan =>
    Cardinality({l \in PeerLines \ CapturedRows :
                  /\ ~\E i \in DOMAIN clauses : InsteadOf(clauses[i], l)
                  /\ ~\E r \in NamedRows : OccursIn(RemoteText(l), RemoteText(r))})
      <= cuts
=============================================================================
