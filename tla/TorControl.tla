----------------------------- MODULE TorControl -----------------------------
(***************************************************************************)
(* The control port of Tor as tor_control.rs uses it: a TorController       *)
(* writes a command, reads the lines of the answer, and stops at the last   *)
(* one.  Tor itself is external: it answers the commands of a connection in *)
(* order, closes the connection after a refused AUTHENTICATE, drops the     *)
(* services of a connection that closes, and may stop at any time.          *)
(***************************************************************************)
EXTENDS Naturals, Sequences

CONSTANTS Run,     \* the processes that control Tor
          Tries    \* what the cookie paths may hold, in the order tried:
                   \* sequences of "none", "short", "wrong" and "right"

ASSUME TorAssumption == Tries \subseteq Seq({"none", "short", "wrong", "right"})

VARIABLES mock,     \* is the controller of a run a mock, without Tor?
          step,     \* where it is
          tries,    \* cookies it has still to try
          asked,    \* has it written a command Tor has not answered?
          inbox,    \* lines of answers that it has not read
          open,     \* is the connection open at Tor's end?
          onion,    \* does Tor have a service of this connection?
          active,   \* does the controller have it as active_service?
          torUp     \* does Tor run?

torVars == <<mock, step, tries, asked, inbox, open, onion, active, torUp>>

TorInit == /\ mock \in [Run -> BOOLEAN]
           /\ step = [r \in Run |-> "off"]
           /\ tries = [r \in Run |-> <<>>]
           /\ inbox = [r \in Run |-> <<>>]
           /\ asked = [r \in Run |-> FALSE] /\ open = [r \in Run |-> FALSE]
           /\ onion = [r \in Run |-> FALSE] /\ active = [r \in Run |-> FALSE]
           /\ torUp = TRUE

Goto(r, s) == step' = [step EXCEPT ![r] = s]

\* write_cmd: after Tor has closed the connection it fails, or nobody reads it.
Write(r, s) == \/ Goto(r, s) /\ asked' = [asked EXCEPT ![r] = open[r]]
               \/ ~ open[r] /\ Goto(r, "failed") /\ UNCHANGED asked

\* read_response: a line, or the empty string once the connection is closed.
HasLine(r) == inbox[r] # <<>> \/ ~ open[r]
Line(r) == IF inbox[r] # <<>> THEN Head(inbox[r]) ELSE ""
TakeLine(r) == inbox' = [inbox EXCEPT ![r] = IF @ # <<>> THEN Tail(@) ELSE @]

\* The loops that read up to the line "250 " take the empty string for one more
\* line: at the end of the stream they turn for ever.
Spinning(r) == step[r] \in {"info", "add", "added"} /\ inbox[r] = <<>> /\ ~ open[r]
-----------------------------------------------------------------------------
(* connect *)

\* Connects and sends PROTOCOLINFO, or finds no Tor.
TorConnect(r) ==
    /\ step[r] = "off" /\ ~ mock[r]
    /\ IF torUp THEN /\ Goto(r, "info")
                     /\ open' = [open EXCEPT ![r] = TRUE]
                     /\ asked' = [asked EXCEPT ![r] = TRUE]
                ELSE Goto(r, "failed") /\ UNCHANGED <<open, asked>>
    /\ UNCHANGED <<mock, tries, inbox, onion, active, torUp>>

ReadInfo(r) ==
    /\ step[r] = "info" /\ inbox[r] # <<>>
    /\ TakeLine(r)
    /\ CASE Line(r) = "end" -> \E t \in Tries : /\ Goto(r, "cookies")
                                                /\ tries' = [tries EXCEPT ![r] = t]
         [] Line(r) = "fail" -> Goto(r, "failed") /\ UNCHANGED tries
         [] OTHER -> UNCHANGED <<step, tries>>
    /\ UNCHANGED <<mock, asked, open, onion, active, torUp>>

\* The next path: a cookie that is not there or not 32 bytes long is passed over.
TryCookie(r) ==
    /\ step[r] = "cookies" /\ tries[r] # <<>>
    /\ IF Head(tries[r]) \in {"none", "short"}
       THEN tries' = [tries EXCEPT ![r] = Tail(@)] /\ UNCHANGED <<step, asked>>
       ELSE Write(r, "auth") /\ UNCHANGED tries
    /\ UNCHANGED <<mock, inbox, open, onion, active, torUp>>

ReadAuth(r) ==
    /\ step[r] = "auth" /\ HasLine(r)
    /\ TakeLine(r)
    /\ IF Line(r) = "end" THEN Goto(r, "idle") /\ UNCHANGED tries
       ELSE Goto(r, "cookies") /\ tries' = [tries EXCEPT ![r] = Tail(@)]
    /\ UNCHANGED <<mock, asked, open, onion, active, torUp>>

\* All paths failed: AUTHENTICATE without a cookie.
TryEmpty(r) == /\ step[r] = "cookies" /\ tries[r] = <<>>
               /\ Write(r, "empty")
               /\ UNCHANGED <<mock, tries, inbox, open, onion, active, torUp>>

ReadEmpty(r) == /\ step[r] = "empty" /\ HasLine(r)
                /\ TakeLine(r)
                /\ Goto(r, IF Line(r) = "end" THEN "idle" ELSE "failed")
                /\ UNCHANGED <<mock, tries, asked, open, onion, active, torUp>>
-----------------------------------------------------------------------------
(* create_hidden_service, destroy_hidden_service *)

CreateService(r) == /\ step[r] = "idle" /\ ~ active[r]
                    /\ Write(r, "add")
                    /\ UNCHANGED <<mock, tries, inbox, open, onion, active, torUp>>

\* Variant of ReadAdd: the loop ends at the line with the ServiceID.
ReadAddUpToId(r) ==
    /\ step[r] \in {"add", "added"} /\ inbox[r] # <<>>
    /\ TakeLine(r)
    /\ CASE Line(r) = "id" -> Goto(r, "idle") /\ active' = [active EXCEPT ![r] = TRUE]
         [] OTHER -> Goto(r, "failed") /\ UNCHANGED active
    /\ UNCHANGED <<mock, tries, asked, open, onion, torUp>>

\* The service becomes the active one at the last line, if its ID was among them.
ReadAdd(r) ==
    /\ step[r] \in {"add", "added"} /\ inbox[r] # <<>>
    /\ TakeLine(r)
    /\ IF Line(r) = "id" THEN Goto(r, "added") /\ UNCHANGED active
       ELSE IF Line(r) = "end" /\ step[r] = "added"
            THEN Goto(r, "idle") /\ active' = [active EXCEPT ![r] = TRUE]
            ELSE Goto(r, "failed") /\ UNCHANGED active
    /\ UNCHANGED <<mock, tries, asked, open, onion, torUp>>

\* A mock controller has a service at once, and Tor knows nothing of it.
MockService(r) == /\ step[r] = "off" /\ mock[r]
                  /\ Goto(r, "idle") /\ active' = [active EXCEPT ![r] = TRUE]
                  /\ UNCHANGED <<mock, tries, asked, inbox, open, onion, torUp>>

\* Variant of DestroyService: the service is forgotten, and Tor not told.
DestroyForget(r) ==
    /\ step[r] = "idle" /\ active[r]
    /\ active' = [active EXCEPT ![r] = FALSE]
    /\ Goto(r, "done")
    /\ UNCHANGED <<mock, tries, asked, inbox, open, onion, torUp>>

\* The service is taken from the controller before DEL_ONION is sent; what
\* becomes of that command makes no difference to the caller.
DestroyService(r) ==
    /\ step[r] = "idle" /\ active[r]
    /\ active' = [active EXCEPT ![r] = FALSE]
    /\ IF mock[r] THEN Goto(r, "done") /\ UNCHANGED asked ELSE Write(r, "del")
    /\ UNCHANGED <<mock, tries, inbox, open, onion, torUp>>

\* Any answer ends the call, an unexpected one with a warning.
ReadDel(r) == /\ step[r] = "del" /\ HasLine(r)
              /\ TakeLine(r)
              /\ Goto(r, "done")
              /\ UNCHANGED <<mock, tries, asked, open, onion, active, torUp>>

\* What the controller does by itself inside connect, create and destroy.
TorStep(r) == \/ ReadInfo(r) \/ TryCookie(r) \/ ReadAuth(r) \/ TryEmpty(r)
              \/ ReadEmpty(r) \/ ReadAdd(r) \/ ReadDel(r)
-----------------------------------------------------------------------------
(* Tor *)

\* The lines Tor may answer with.
Answers(r) ==
    CASE step[r] = "info" -> {<<"cookiefile", "end">>, <<"end">>, <<"fail">>}
      [] step[r] = "auth" -> {<<IF Head(tries[r]) = "right" THEN "end" ELSE "fail">>}
      [] step[r] = "empty" -> {<<"end">>, <<"fail">>}
      [] step[r] = "add" -> {<<"id", "end">>, <<"fail">>}
      [] step[r] = "del" -> {<<"end">>}

Answer(r) ==
    /\ asked[r] /\ open[r]
    /\ asked' = [asked EXCEPT ![r] = FALSE]
    /\ \E a \in Answers(r) :
          LET refused == step[r] \in {"auth", "empty"} /\ a = <<"fail">>
          IN  /\ inbox' = [inbox EXCEPT ![r] = @ \o a]
              /\ open' = [open EXCEPT ![r] = ~ refused]
              /\ onion' = [onion EXCEPT ![r] = \/ "id" \in {a[i] : i \in DOMAIN a}
                                               \/ @ /\ step[r] # "del"]
    /\ UNCHANGED <<mock, step, tries, active, torUp>>

Longest == 2   \* lines of an answer

\* Tor stops; an answer under way to any run may have been cut after any line.
TorStops ==
    /\ torUp /\ torUp' = FALSE
    /\ open' = [r \in Run |-> FALSE] /\ onion' = [r \in Run |-> FALSE]
    /\ asked' = [r \in Run |-> FALSE]
    /\ \E kept \in [Run -> 0 .. Longest] :
          /\ \A r \in Run : kept[r] <= Len(inbox[r])
          /\ inbox' = [r \in Run |-> SubSeq(inbox[r], 1, kept[r])]
    /\ UNCHANGED <<mock, step, tries, active>>

\* The process of a run is gone, and its connection with it.
TorDrop(r) == /\ step' = [step EXCEPT ![r] = "done"]
              /\ tries' = [tries EXCEPT ![r] = <<>>]
              /\ inbox' = [inbox EXCEPT ![r] = <<>>]
              /\ asked' = [asked EXCEPT ![r] = FALSE]
              /\ open' = [open EXCEPT ![r] = FALSE]
              /\ onion' = [onion EXCEPT ![r] = FALSE]
              /\ active' = [active EXCEPT ![r] = FALSE]
              /\ UNCHANGED <<mock, torUp>>
-----------------------------------------------------------------------------
TorNext == \/ TorStops
           \/ \E r \in Run : \/ TorConnect(r) \/ CreateService(r) \/ MockService(r)
                             \/ DestroyService(r) \/ TorStep(r)
                             \/ Answer(r) \/ TorDrop(r)

TorSpec == TorInit /\ [][TorNext]_torVars
-----------------------------------------------------------------------------
(* Properties *)

\* A command is written only when the answer to the one before has been read to
\* its end: no reply is ever taken for that of another command (write_cmd,
\* read_response).
RepliesInStep == \A r \in Run : asked[r] => inbox[r] = <<>>

\* A service that Tor keeps for a controller is its active one, or one of the
\* two commands about it is under way: no error path leaves one behind.
NoOrphans == \A r \in Run : onion[r] => active[r] \/ step[r] \in {"add", "added", "del"}

\* What may be unread of an answer.
Texts == {<<>>, <<"cookiefile", "end">>, <<"cookiefile">>, <<"id", "end">>, <<"id">>,
          <<"end">>, <<"fail">>}

\* What makes these two inductive, for a run r: the lines that may be unread at
\* each step, a path to be tried, a service that lives on its connection only, and no service at the
\* steps before ADD_ONION is answered or after DEL_ONION is.
Unread(s) == CASE s = "info" -> {<<>>, <<"cookiefile", "end">>, <<"cookiefile">>,
                                 <<"end">>, <<"fail">>}
               [] s \in {"auth", "empty"} -> {<<>>, <<"end">>, <<"fail">>}
               [] s = "add" -> {<<>>, <<"id", "end">>, <<"id">>, <<"fail">>}
               [] s \in {"added", "del"} -> {<<>>, <<"end">>}
               [] OTHER -> {<<>>}

Asking == {"info", "auth", "empty", "add", "del"}

TorInStep(r) ==
    /\ inbox[r] \in Unread(step[r])
    /\ asked[r] => inbox[r] = <<>> /\ step[r] \in Asking
    /\ onion[r] \/ asked[r] => open[r]
    /\ mock[r] => ~ open[r]
    /\ step[r] = "auth" => tries[r] # <<>>
    /\ onion[r] => \/ step[r] = "idle" /\ active[r]
                   \/ step[r] = "add" /\ ~ asked[r] /\ inbox[r] # <<"fail">>
                   \/ step[r] = "added"
                   \/ step[r] = "del" /\ inbox[r] = <<>>

TorTypeOK == /\ mock \in [Run -> BOOLEAN] /\ asked \in [Run -> BOOLEAN]
             /\ open \in [Run -> BOOLEAN] /\ onion \in [Run -> BOOLEAN]
             /\ active \in [Run -> BOOLEAN] /\ torUp \in BOOLEAN
             /\ step \in [Run -> {"off", "cookies", "idle", "added", "failed", "done"}
                                \cup Asking]
             /\ inbox \in [Run -> Texts]
             /\ tries \in [Run -> Seq({"none", "short", "wrong", "right"})]

TorInv == TorTypeOK /\ \A r \in Run : TorInStep(r)
=============================================================================
