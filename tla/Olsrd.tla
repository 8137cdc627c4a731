------------------------------- MODULE Olsrd --------------------------------
(***************************************************************************)
(* The driver of Player for the links of the radio network                 *)
(* (playerstage/trunk/drivers/olsrd/olsrd.cc): between two naps it asks    *)
(* the daemon olsrd for its links and merges the lines of the answer, one  *)
(* for each direction of a link, to a list of links with a mean value.     *)
(*                                                                         *)
(* One read takes what has arrived of the answer, at most a buffer of it.  *)
(* Values are in units of which the halves taken are whole.                *)
(***************************************************************************)
EXTENDS PlayerServer, SequencesExt

CONSTANTS
  Answers    \* answers of the daemon: sequences of lines <<from, to, value>>

NoLine == <<>>    \* a line that sscanf does not convert, for one of "INFINITE"

ASSUME AnswersAssumption == Answers \subseteq Seq((Nat \X Nat \X Nat) \union {NoLine})

VARIABLES
  sock,     \* descriptor of the connection, a local variable
  answer,   \* the lines in the buffer
  merged,   \* how many of them are merged
  links     \* topology: records of start, end and value

olsrdVars == <<sock, answer, merged, links>>

OlsrdTypeOK ==
  /\ pc["olsrd"] \in {"none", "messages", "connect", "read", "merge", "close",
                      "publish", "sleep", "quit"}
  /\ sock \in Fd \union {NoFd}
  /\ merged \in 0..Len(answer)
  /\ Len(links) <= merged

OlsrdInit == sock = NoFd /\ answer = <<>> /\ merged = 0 /\ links = <<>>

otherThanFiles == <<processVars, call, subscribed, cancelled, ready, inbox>>

-----------------------------------------------------------------------------
OlsrdSetup ==
  /\ SetUp("olsrd")
  /\ UNCHANGED <<files, ready, inbox, olsrdVars>>

(* The configured address is none. *)
OlsrdSetupFails ==
  /\ SetupFails("olsrd")
  /\ UNCHANGED <<dead, files, ready, inbox, olsrdVars>>

OlsrdShutdown ==
  /\ StopThread("olsrd") \/ Shutdown("olsrd", {})
  /\ UNCHANGED olsrdVars

OlsrdQuit == MainQuit("olsrd", {}) /\ UNCHANGED olsrdVars

(* Messages are answered at once and change nothing.  There may be no      *)
(* socket to have, for want of descriptors or of anything else.            *)
OlsrdSocket ==
  /\ ~cancelled["olsrd"]
  /\ \/ /\ Goes("olsrd", "messages", "connect")
        /\ \E n \in Fd : Opens("olsrd", n) /\ sock' = n
     \/ /\ Goes("olsrd", "messages", "publish")
        /\ UNCHANGED <<files, sock>>
  /\ UNCHANGED <<otherThanFiles, answer, merged, links>>

(* The connection is made and the request written ... *)
OlsrdConnect ==
  /\ Goes("olsrd", "connect", "read")
  /\ UNCHANGED <<otherThanFiles, files, olsrdVars>>

(* ... or one of the two fails, or reading does, or nothing but the header *)
(* is read.                                                                *)
OlsrdGivesUp ==
  /\ Goes("olsrd", "connect", "publish") \/ Goes("olsrd", "read", "publish")
  /\ files' = Closed({sock})
  /\ UNCHANGED <<otherThanFiles, olsrdVars>>

(* The answer as a whole, or cut off within its first byte after a line.   *)
OlsrdRead ==
  /\ Goes("olsrd", "read", "merge")
  /\ \E whole \in Answers : \E n \in 1..Len(whole) : answer' = SubSeq(whole, 1, n)
  /\ UNCHANGED <<otherThanFiles, files, sock, merged, links>>

(* Cut off anywhere else: the end of the last line is searched for, not    *)
(* found, and its address used.                                            *)
OlsrdReadCut ==
  /\ Goes("olsrd", "read", "none")
  /\ dead' = TRUE
  /\ UNCHANGED <<version, config, call, subscribed, cancelled, files, ready, inbox, olsrdVars>>

(* The robots at the two ends of a line: the low bytes of their addresses. *)
Ends(line) == {line[1] % 256, line[2] % 256}

Lower(line) == IF line[1] % 256 < line[2] % 256 THEN line[1] % 256 ELSE line[2] % 256

Upper(line) == IF line[1] % 256 < line[2] % 256 THEN line[2] % 256 ELSE line[1] % 256

(* A slip: one end that is the same will do. *)
SameStart(link, line) == link.start = Lower(line)

SameLink(link, line) == link.start = Lower(line) /\ link.end = Upper(line)

(* A line goes into the link there is, or makes a new one. *)
WithLine(line) ==
  IF \E i \in DOMAIN links : SameLink(links[i], line)
  THEN [i \in DOMAIN links |->
          IF SameLink(links[i], line)
          THEN [links[i] EXCEPT !.value = (@ + line[3]) \div 2] ELSE links[i]]
  ELSE Append(links, [start |-> Lower(line), end |-> Upper(line), value |-> line[3]])

OlsrdMerge ==
  /\ pc["olsrd"] = "merge"
  /\ merged < Len(answer) /\ answer[merged + 1] # NoLine
  /\ links' = WithLine(answer[merged + 1])
  /\ merged' = merged + 1
  /\ UNCHANGED <<serverVars, sock, answer>>

OlsrdMergeEnds ==
  /\ Goes("olsrd", "merge", "close")
  /\ merged < Len(answer) => answer[merged + 1] = NoLine
  /\ UNCHANGED <<otherThanFiles, files, olsrdVars>>

OlsrdClose ==
  /\ Goes("olsrd", "close", "publish")
  /\ files' = Closed({sock})
  /\ UNCHANGED <<otherThanFiles, olsrdVars>>

(* The links, if there are any, and the position. *)
OlsrdPublish ==
  /\ Goes("olsrd", "publish", "sleep")
  /\ inbox' = inbox \union {"olsrd"}
  /\ sock' = NoFd /\ answer' = <<>> /\ merged' = 0 /\ links' = <<>>
  /\ UNCHANGED <<processVars, call, subscribed, cancelled, files, ready>>

OlsrdSleep ==
  /\ Goes("olsrd", "sleep", "messages")
  /\ UNCHANGED <<otherThanFiles, files, olsrdVars>>

(* A thread that is cancelled within updateTopology leaves its socket.     *)
OlsrdCancel ==
  /\ Cancel("olsrd", {"messages", "connect", "read", "close", "sleep"})
  /\ sock' = NoFd /\ answer' = <<>> /\ merged' = 0 /\ links' = <<>>

-----------------------------------------------------------------------------
OlsrdThread ==
  \/ OlsrdSocket \/ OlsrdConnect \/ OlsrdMerge \/ OlsrdMergeEnds \/ OlsrdClose
  \/ OlsrdPublish \/ OlsrdSleep \/ OlsrdCancel \/ OlsrdQuit

OlsrdAnswer == OlsrdRead \/ OlsrdReadCut \/ OlsrdGivesUp

OlsrdCall == OlsrdSetup \/ OlsrdSetupFails \/ OlsrdShutdown

OlsrdNext == OlsrdThread \/ OlsrdAnswer \/ OlsrdCall

(* What is published are the links of the lines merged, each of them once, *)
(* whatever the order of the lines and the directions they come in, with a *)
(* value between those of its lines: updateTopology looks for a link by    *)
(* both its ends.                                                          *)
LinksOfAnswer ==
  links # <<>> =>
    /\ {{l.start, l.end} : l \in Range(links)} = {Ends(answer[k]) : k \in 1..merged}
    /\ \A i, j \in DOMAIN links :
         i # j => {links[i].start, links[i].end} # {links[j].start, links[j].end}
    /\ \A l \in Range(links) :
         \E k, m \in 1..merged : /\ Ends(answer[k]) = {l.start, l.end}
                             /\ Ends(answer[m]) = {l.start, l.end}
                             /\ answer[k][3] <= l.value /\ l.value <= answer[m][3]
=============================================================================
