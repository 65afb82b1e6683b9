---------------------------- MODULE HostingProofs ----------------------------
(***************************************************************************)
(* Proofs about the runs of the command line and what they share.  First    *)
(* the two parts, each by itself: ProfileInv is inductive, so that the      *)
(* types, the agreement of the files and the permanence of a named identity *)
(* hold for any number of key pairs; TorInv is inductive, so that replies   *)
(* stay in step with commands and no service is left behind, for any number *)
(* of controllers, each with any list of cookie paths.  Then the whole:     *)
(* whatever the runs do together, the profile behaves as Profile and the    *)
(* control port as TorControl alone, for any runs, ports and calls, so that *)
(* what is proved of the two holds of the whole.                            *)
(***************************************************************************)
EXTENDS Hosting, SequenceTheorems, TLAPS

------------------------------------------------------------------------------
\* The profile of a member.

\* The files are written one after the other, each of them one of Files.
LEMMA OrderType == \A n \in 1 .. ImportAt : /\ Order[n] \in Files
                                            /\ Order[n] = "key" <=> n = 1
                                            /\ Order[n] = "signing" <=> n = ImportAt
BY DEF Order, Files, ImportAt

\* The initial states satisfy the invariant.
LEMMA InitInv == ProfileInit => ProfileInv
<1> SUFFICES ASSUME ProfileInit PROVE ProfileInv
  OBVIOUS
<1>1. ProfileTypeOK
  <2>1. keysDir \in BOOLEAN /\ opened \in BOOLEAN
    BY Zenon DEF ProfileInit
  <2> QED BY <2>1, ProfileAssumption DEF ProfileInit, ProfileTypeOK, ImportAt
<1>2. \A f \in Files : disk[f] = Absent
  BY DEF ProfileInit
<1>3. InitInStep
  BY <1>2, ProfileAssumption DEF ProfileInit, InitInStep, Files, InitLast
<1>4. FilesAgree /\ IdentityLasts
  BY <1>2 DEF ProfileInit, FilesAgree, IdentityLasts, Files
<1> QED BY <1>1, <1>3, <1>4 DEF ProfileInv

\* Opening a file keeps the invariant: what is emptied belongs to nobody.
LEMMA OpenInv == ProfileInv /\ Open => ProfileInv'
<1> SUFFICES ASSUME ProfileInv, Open PROVE ProfileInv'
  OBVIOUS
<1> USE ProfileAssumption DEF ProfileInv, Open
<1>1. /\ at \in 1 .. ImportAt /\ Order[at] \in Files
      /\ Order[at] = "key" <=> at = 1
  BY OrderType DEF ProfileTypeOK, ImportAt
<1>2. ProfileTypeOK'
  BY <1>1 DEF ProfileTypeOK, Files
<1>3. at = 1 => said = {}
  BY DEF ProfileTypeOK, InitInStep, IdentityLasts
<1>4. at # 1 => disk'["key"] = disk["key"]
  BY <1>1 DEF ProfileTypeOK, Files
<1>5. at = 1 => disk'["key"] = Broken
  BY <1>1 DEF ProfileTypeOK, Files
<1>6. \A f \in {"pub", "fingerprint", "config"} :
         disk'[f] = disk[f] \/ (disk'[f] = Broken /\ at # 1)
  BY <1>1 DEF ProfileTypeOK, Files
<1>7. InitInStep'
  <2>1. at \in 2 .. InitLast => disk["key"] \in Ids
    BY DEF InitInStep, InitLast
  <2>2. CASE at = 1
    <3>1. disk["key"] \in {Absent, Broken}
      BY <2>2 DEF ProfileTypeOK, InitInStep, Files
    <3> QED BY <2>2, <3>1, <1>5, <1>6 DEF InitInStep, Ids, InitLast
  <2>3. CASE at \in 2 .. InitLast
    BY <2>1, <2>3, <1>4 DEF InitInStep, Ids, InitLast
  <2>4. CASE at = ImportAt
    <3>1. Order[at] = "signing"
      BY <2>4, OrderType DEF ImportAt
    <3>2. \A f \in {"pub", "fingerprint", "config", "key"} : disk'[f] = disk[f]
      BY <3>1 DEF ProfileTypeOK, Files
    <3> QED BY <2>4, <3>2 DEF InitInStep, InitLast, ImportAt
  <2> QED BY <1>1, <2>2, <2>3, <2>4 DEF InitLast, ImportAt
<1>8. FilesAgree'
  <2>1. CASE at = 1
    <3>1. disk["key"] \in {Absent, Broken}
      BY <2>1 DEF ProfileTypeOK, InitInStep, Files
    <3> QED BY <2>1, <3>1, <1>6 DEF FilesAgree, InitInStep
  <2>2. CASE at # 1
    BY <2>2, <1>4, <1>6 DEF FilesAgree
  <2> QED BY <2>1, <2>2
<1>9. IdentityLasts'
  BY <1>3, <1>4 DEF IdentityLasts
<1> QED BY <1>2, <1>7, <1>8, <1>9

\* Filling a file keeps the invariant: the identity is that of the key already
\* there, or the key itself.
LEMMA FillInv == ProfileInv /\ Fill => ProfileInv'
<1> SUFFICES ASSUME ProfileInv, Fill PROVE ProfileInv'
  OBVIOUS
<1> USE ProfileAssumption DEF ProfileInv, Fill
<1>1. /\ at \in 1 .. ImportAt /\ Order[at] \in Files
      /\ Order[at] = "key" <=> at = 1
      /\ Order[at] = "signing" <=> at = ImportAt
      /\ mine \in Ids
  BY OrderType DEF ProfileTypeOK, InitInStep, ImportAt
<1>2. After(at) \in 0 .. ImportAt /\ After(at) # 1
  BY <1>1 DEF After, InitLast, ImportAt
<1>3. ProfileTypeOK'
  BY <1>1, <1>2 DEF ProfileTypeOK, Files
<1>4. at = 1 => said = {}
  BY DEF ProfileTypeOK, InitInStep, IdentityLasts
<1>5. /\ at # 1 => disk'["key"] = disk["key"]
      /\ at = 1 => disk'["key"] = mine
      /\ at \in 1 .. InitLast => disk'["key"] = mine
  BY <1>1 DEF ProfileTypeOK, Files, InitInStep, InitLast
<1>6. \A f \in {"pub", "fingerprint", "config"} :
         disk'[f] = disk[f] \/ (disk'[f] = mine /\ at \in 2 .. InitLast)
  BY <1>1 DEF ProfileTypeOK, Files, InitLast, ImportAt
<1>7. InitInStep'
  <2>1. CASE at \in 1 .. InitLast
    BY <2>1, <1>1, <1>2, <1>5 DEF InitInStep, Ids, InitLast
  <2>2. CASE at = ImportAt
    BY <2>2, <1>5, <1>6 DEF InitInStep, After, InitLast, ImportAt
  <2> QED BY <1>1, <2>1, <2>2 DEF InitLast, ImportAt
<1>8. FilesAgree'
  <2>1. CASE at = 1
    <3>1. disk["key"] \in {Absent, Broken}
      BY <2>1 DEF ProfileTypeOK, InitInStep, Files
    <3> QED BY <2>1, <3>1, <1>6 DEF FilesAgree, InitInStep
  <2>2. CASE at # 1
    BY <2>2, <1>5, <1>6 DEF FilesAgree, InitLast
  <2> QED BY <2>1, <2>2
<1>9. IdentityLasts'
  BY <1>1, <1>4, <1>5 DEF IdentityLasts, InitLast
<1> QED BY <1>3, <1>7, <1>8, <1>9

\* Every step keeps the invariant.
LEMMA NextInv == ProfileInv /\ [ProfileNext]_profileVars => ProfileInv'
<1> SUFFICES ASSUME ProfileInv, [ProfileNext]_profileVars PROVE ProfileInv'
  OBVIOUS
<1> USE ProfileAssumption DEF ProfileInv
<1>1. CASE InitFresh
  <2>1. disk["key"] = Absent
    BY <1>1 DEF InitFresh, Exists
  <2> QED BY <1>1, <2>1 DEF InitFresh, ProfileTypeOK, InitInStep, FilesAgree, IdentityLasts,
             Files, Ids, ImportAt, InitLast
<1>2. CASE InitAgain
  BY <1>2 DEF InitAgain, Loads, command, ProfileTypeOK, InitInStep, FilesAgree,
     IdentityLasts
<1>3. CASE Open
  BY <1>3, OpenInv
<1>4. CASE Fill
  BY <1>4, FillInv
<1>5. CASE Stop
  <2>1. ProfileTypeOK'
    <3>1. opened' \in BOOLEAN
      BY <1>5, Zenon DEF Stop
    <3> QED BY <1>5, <3>1 DEF Stop, ProfileTypeOK, ImportAt
  <2>2. InitInStep'
    BY <1>5 DEF Stop, InitInStep, InitLast
  <2> QED BY <1>5, <2>1, <2>2 DEF Stop, FilesAgree, IdentityLasts
<1>6. CASE Import
  BY <1>6 DEF Import, ProfileTypeOK, InitInStep, FilesAgree, IdentityLasts, Ids, ImportAt,
     InitLast
<1>7. CASE Show
  BY <1>7 DEF Show, command, ProfileTypeOK, InitInStep, FilesAgree, IdentityLasts
<1>8. CASE Generate
  BY <1>8 DEF Generate, command, ProfileTypeOK, InitInStep, FilesAgree, IdentityLasts, Ids
<1>9. CASE LoadFromDisk
  BY <1>9 DEF LoadFromDisk, Loads, command, ProfileTypeOK, InitInStep, FilesAgree,
     IdentityLasts
<1>10. CASE Delete
  <2>1. \A f \in Files : disk'[f] = Absent
    BY <1>10 DEF Delete
  <2>2. ProfileTypeOK'
    BY <1>10 DEF Delete, command, ProfileTypeOK
  <2>3. InitInStep'
    BY <1>10, <2>1 DEF Delete, command, InitInStep, Files, InitLast
  <2> QED BY <1>10, <2>1, <2>2, <2>3 DEF Delete, FilesAgree, IdentityLasts, Files
<1>11. CASE UNCHANGED profileVars
  BY <1>11 DEF profileVars, command, ProfileTypeOK, InitInStep, FilesAgree, IdentityLasts
<1> QED BY <1>1, <1>2, <1>3, <1>4, <1>5, <1>6, <1>7, <1>8, <1>9, <1>10, <1>11 DEF ProfileNext

\* The invariant holds in every state of a profile.
LEMMA InvHolds == ProfileSpec => []ProfileInv
BY InitInv, NextInv, PTL DEF ProfileSpec

\* Every variable of a profile stays in its type.
THEOREM TypeCorrect == ProfileSpec => []ProfileTypeOK
BY InvHolds, PTL DEF ProfileInv

\* The files of a profile never belong to different identities, wherever init was
\* interrupted and however often it was run again.
THEOREM FilesAlwaysAgree == ProfileSpec => []FilesAgree
BY InvHolds, PTL DEF ProfileInv

\* The identity a command has named stays until the profile is deleted.
THEOREM NamedIdentityLasts == ProfileSpec => []IdentityLasts
BY InvHolds, PTL DEF ProfileInv

------------------------------------------------------------------------------
\* The control port of Tor.

\* The first line of what is unread, and what is left without it.
LEMMA FirstLine ==
    /\ Head(<<"cookiefile", "end">>) = "cookiefile"
    /\ Tail(<<"cookiefile", "end">>) = <<"end">>
    /\ Head(<<"id", "end">>) = "id" /\ Tail(<<"id", "end">>) = <<"end">>
    /\ Head(<<"cookiefile">>) = "cookiefile" /\ Tail(<<"cookiefile">>) = <<>>
    /\ Head(<<"id">>) = "id" /\ Tail(<<"id">>) = <<>>
    /\ Head(<<"end">>) = "end" /\ Tail(<<"end">>) = <<>>
    /\ Head(<<"fail">>) = "fail" /\ Tail(<<"fail">>) = <<>>
OBVIOUS

\* What may be left when the end of an answer is cut off.
Cut(t) == {<<>>, t} \cup (CASE t = <<"cookiefile", "end">> -> {<<"cookiefile">>}
                           [] t = <<"id", "end">> -> {<<"id">>}
                           [] OTHER -> {})

LEMMA CutLine == ASSUME NEW t \in Texts, NEW n \in 0 .. Len(t)
                 PROVE  SubSeq(t, 1, n) \in Cut(t)
<1>1. \A a, b : SubSeq(<<a, b>>, 1, 1) = <<a>>
  <2> SUFFICES ASSUME NEW a, NEW b PROVE SubSeq(<<a, b>>, 1, 1) = <<a>>
    OBVIOUS
  <2> DEFINE s == SubSeq(<<a, b>>, 1, 1)
             one == <<a>>
  <2>1. <<a, b>> \in Seq({a, b}) /\ Len(<<a, b>>) = 2
    OBVIOUS
  <2>2. s \in Seq({a, b}) /\ Len(s) = 1 /\ s[1] = <<a, b>>[1]
    BY <2>1, SubSeqProperties
  <2>3. one \in Seq({a, b}) /\ Len(one) = 1 /\ one[1] = <<a, b>>[1]
    OBVIOUS
  <2> HIDE DEF s, one
  <2>4. s = one
    BY <2>2, <2>3, SeqEqual
  <2> QED BY <2>4 DEF s, one
<1>2. \A a, b : SubSeq(<<a, b>>, 1, 2) = <<a, b>>
  <2> SUFFICES ASSUME NEW a, NEW b PROVE SubSeq(<<a, b>>, 1, 2) = <<a, b>>
    OBVIOUS
  <2> DEFINE two == <<a, b>>
             S == {a, b}
  <2>1. two \in Seq(S) /\ Len(two) = 2
    OBVIOUS
  <2> HIDE DEF two, S
  <2>2. SubSeq(two, 1, 2) \in Seq(S) /\ Len(SubSeq(two, 1, 2)) = 2
    BY <2>1, SubSeqProperties
  <2>3. \A i \in 1 .. 2 : SubSeq(two, 1, 2)[i] = two[i]
    BY <2>1, SubSeqProperties
  <2>4. SubSeq(two, 1, 2) = two
    BY <2>1, <2>2, <2>3, SeqEqual
  <2> QED BY <2>4 DEF two
<1>3. \A a : SubSeq(<<a>>, 1, 1) = <<a>>
  <2> SUFFICES ASSUME NEW a PROVE SubSeq(<<a>>, 1, 1) = <<a>>
    OBVIOUS
  <2> DEFINE one == <<a>>
             s == SubSeq(one, 1, 1)
  <2>1. one \in Seq({a}) /\ Len(one) = 1
    OBVIOUS
  <2> HIDE DEF one
  <2>2. s \in Seq({a}) /\ Len(s) = 1 /\ s[1] = one[1]
    BY <2>1, SubSeqProperties
  <2> HIDE DEF s
  <2>3. s = one
    BY <2>1, <2>2, SeqEqual
  <2> QED BY <2>3 DEF s, one
<1>4. \A a, b : Len(<<a, b>>) = 2 /\ Len(<<a>>) = 1 /\ Len(<<>>) = 0
  OBVIOUS
<1>5. SubSeq(t, 1, 0) = <<>>
  BY DEF Texts
<1>6. CASE n = 0
  BY <1>5, <1>6 DEF Cut
<1>7. CASE t = <<>>
  <2>1. n = 0
    BY <1>7
  <2> QED BY <1>6, <2>1
<1>8. CASE t \in {<<"cookiefile">>, <<"id">>, <<"end">>, <<"fail">>} /\ n # 0
  <2>1. PICK a : t = <<a>>
    BY <1>8
  <2>2. n = 1
    BY <1>8, <1>4, <2>1
  <2>3. SubSeq(t, 1, n) = t
    BY <1>3, <2>1, <2>2
  <2> QED BY <2>3 DEF Cut
<1>9. CASE t \in {<<"cookiefile", "end">>, <<"id", "end">>} /\ n # 0
  <2>1. PICK a \in {"cookiefile", "id"} : t = <<a, "end">>
    BY <1>9
  <2>2. n = 1 \/ n = 2
    BY <1>9, <1>4, <2>1
  <2>3. CASE n = 2
    <3>1. SubSeq(t, 1, n) = t
      BY <1>2, <2>1, <2>3
    <3> QED BY <3>1 DEF Cut
  <2>4. CASE n = 1
    <3>1. SubSeq(t, 1, n) = <<a>>
      BY <1>1, <2>1, <2>4
    <3>2. a = "id" => t # <<"cookiefile", "end">>
      BY <2>1
    <3>3. a = "cookiefile" => <<a>> \in Cut(t)
      BY <2>1 DEF Cut
    <3>4. a = "id" => <<a>> \in Cut(t)
      BY <2>1, <3>2 DEF Cut
    <3> QED BY <3>1, <3>3, <3>4
  <2> QED BY <2>2, <2>3, <2>4
<1> QED BY <1>6, <1>7, <1>8, <1>9 DEF Texts

\* No text is longer than two lines.
LEMMA TextLen == \A t \in Texts : Len(t) \in 0 .. 2
BY DEF Texts

\* Of what may be unread at a step, what is left may be too.
LEMMA CutUnread == ASSUME NEW s, NEW t \in Unread(s), t \in Texts, NEW u \in Cut(t)
                   PROVE  u \in Texts /\ u \in Unread(s)
BY DEF Texts, Unread, Cut

\* A step of run r that leaves all other runs alone.
Others(r) == \A q \in Run \ {r} :
    /\ mock'[q] = mock[q] /\ step'[q] = step[q] /\ asked'[q] = asked[q]
    /\ inbox'[q] = inbox[q] /\ open'[q] = open[q] /\ onion'[q] = onion[q]
    /\ active'[q] = active[q] /\ tries'[q] = tries[q]

LEMMA OneRun == ASSUME NEW r \in Run, \A q \in Run : TorInStep(q), Others(r), TorInStep(r)'
                PROVE  \A q \in Run : TorInStep(q)'
<1> SUFFICES ASSUME NEW q \in Run \ {r} PROVE TorInStep(q)'
  OBVIOUS
<1> QED BY DEF Others, TorInStep

\* The initial states satisfy the invariant.
LEMMA TorInitInv == TorInit => TorInv
<1> SUFFICES ASSUME TorInit PROVE TorInv
  OBVIOUS
<1>1. TorTypeOK
  BY DEF TorInit, TorTypeOK, Texts
<1>2. \A r \in Run : TorInStep(r)
  BY DEF TorInit, TorInStep, Unread, Asking
<1> QED BY <1>1, <1>2 DEF TorInv

\* connect keeps the invariant.
LEMMA ConnectInv ==
    ASSUME TorInv, NEW r \in Run,
           TorConnect(r) \/ ReadInfo(r) \/ TryCookie(r) \/ ReadAuth(r) \/ TryEmpty(r)
             \/ ReadEmpty(r)
    PROVE  TorInv'
<1> USE TorAssumption DEF TorInv, Goto, Asking
<1>1. CASE TorConnect(r)
  <2>1. TorTypeOK'
    BY <1>1 DEF TorConnect, TorTypeOK
  <2>2. TorInStep(r)'
    BY <1>1 DEF TorConnect, TorTypeOK, TorInStep, Unread
  <2>3. Others(r)
    BY <1>1 DEF TorConnect, TorTypeOK, Others
  <2> QED BY <2>1, <2>2, <2>3, OneRun
<1>2. CASE ReadInfo(r)
  <2>1. inbox[r] \in Unread("info") \ {<<>>} /\ step[r] = "info"
    BY <1>2 DEF ReadInfo, TorInStep
  <2>2. /\ inbox' = [inbox EXCEPT ![r] = Tail(inbox[r])]
        /\ UNCHANGED <<mock, asked, open, onion, active, torUp>>
        /\ ~ asked[r] /\ ~ onion[r]
    BY <1>2 DEF ReadInfo, TakeLine, TorInStep, TorTypeOK
  <2>3. CASE inbox[r] = <<"end">>
    <3>1. PICK t \in Tries : /\ step' = [step EXCEPT ![r] = "cookies"]
                             /\ tries' = [tries EXCEPT ![r] = t]
      BY <1>2, <2>3, FirstLine DEF ReadInfo, Line
    <3>2. inbox'[r] = <<>>
      BY <2>2, <2>3, FirstLine DEF TorTypeOK
    <3>3. TorTypeOK'
      BY <2>2, <2>3, <3>1, FirstLine DEF TorTypeOK, Texts
    <3>4. TorInStep(r)'
      BY <2>2, <3>1, <3>2 DEF TorTypeOK, TorInStep, Unread
    <3>5. Others(r)
      BY <2>2, <3>1 DEF TorTypeOK, Others
    <3> QED BY <3>3, <3>4, <3>5, OneRun
  <2>4. CASE inbox[r] = <<"fail">>
    <3>1. step' = [step EXCEPT ![r] = "failed"] /\ UNCHANGED tries
      BY <1>2, <2>4, FirstLine DEF ReadInfo, Line
    <3>2. inbox'[r] = <<>>
      BY <2>2, <2>4, FirstLine DEF TorTypeOK
    <3>3. TorTypeOK'
      BY <2>2, <2>4, <3>1, FirstLine DEF TorTypeOK, Texts
    <3>4. TorInStep(r)'
      BY <2>2, <3>1, <3>2 DEF TorTypeOK, TorInStep, Unread
    <3>5. Others(r)
      BY <2>2, <3>1 DEF TorTypeOK, Others
    <3> QED BY <3>3, <3>4, <3>5, OneRun
  <2>5. CASE inbox[r] \in {<<"cookiefile", "end">>, <<"cookiefile">>}
    <3>1. UNCHANGED <<step, tries>>
      BY <1>2, <2>5, FirstLine DEF ReadInfo, Line
    <3>2. inbox'[r] \in {<<"end">>, <<>>}
      BY <2>2, <2>5, FirstLine DEF TorTypeOK
    <3>3. TorTypeOK'
      BY <2>2, <2>5, <3>1, FirstLine DEF TorTypeOK, Texts
    <3>4. TorInStep(r)'
      BY <2>1, <2>2, <3>1, <3>2 DEF TorTypeOK, TorInStep, Unread
    <3>5. Others(r)
      BY <2>2, <3>1 DEF TorTypeOK, Others
    <3> QED BY <3>3, <3>4, <3>5, OneRun
  <2> QED BY <2>1, <2>3, <2>4, <2>5 DEF Unread
<1>3. CASE TryCookie(r)
  <2>1. step[r] = "cookies" /\ inbox[r] = <<>> /\ ~ asked[r] /\ ~ onion[r]
    BY <1>3 DEF TryCookie, TorInStep, Unread
  <2>2. TorTypeOK'
    <3>1. tries[r] # <<>> => Tail(tries[r]) \in Seq({"none", "short", "wrong", "right"})
      BY HeadTailProperties DEF TorTypeOK
    <3>2. tries' \in [Run -> Seq({"none", "short", "wrong", "right"})]
      BY <1>3, <3>1 DEF TryCookie, TorTypeOK
    <3> QED BY <1>3, <3>2 DEF TryCookie, Write, TorTypeOK
  <2>3. TorInStep(r)'
    BY <1>3, <2>1 DEF TryCookie, Write, TorTypeOK, TorInStep, Unread
  <2>4. Others(r)
    BY <1>3 DEF TryCookie, Write, TorTypeOK, Others
  <2> QED BY <2>2, <2>3, <2>4, OneRun
<1>4. CASE ReadAuth(r)
  <2>1. /\ step[r] = "auth" /\ inbox[r] \in {<<>>, <<"end">>, <<"fail">>}
        /\ ~ onion[r]
    BY <1>4 DEF ReadAuth, TorInStep, Unread
  <2>2. ~ asked[r]
    BY <1>4 DEF ReadAuth, HasLine, TorInStep
  <2>3. inbox'[r] = <<>> /\ inbox' \in [Run -> Texts]
    BY <1>4, <2>1, FirstLine DEF ReadAuth, TakeLine, TorTypeOK, Texts
  <2>4. TorTypeOK'
    <3>1. Tail(tries[r]) \in Seq({"none", "short", "wrong", "right"})
      BY <2>1, HeadTailProperties DEF TorTypeOK, TorInStep
    <3>2. tries' \in [Run -> Seq({"none", "short", "wrong", "right"})]
      BY <1>4, <3>1 DEF ReadAuth, TorTypeOK
    <3> QED BY <1>4, <2>3, <3>2 DEF ReadAuth, TorTypeOK
  <2>5. TorInStep(r)'
    BY <1>4, <2>1, <2>2, <2>3 DEF ReadAuth, TorTypeOK, TorInStep, Unread
  <2>6. Others(r)
    BY <1>4 DEF ReadAuth, TakeLine, TorTypeOK, Others
  <2> QED BY <2>4, <2>5, <2>6, OneRun
<1>5. CASE TryEmpty(r)
  <2>1. step[r] = "cookies" /\ inbox[r] = <<>> /\ ~ asked[r] /\ ~ onion[r]
    BY <1>5 DEF TryEmpty, TorInStep, Unread
  <2>2. TorTypeOK'
    BY <1>5 DEF TryEmpty, Write, TorTypeOK
  <2>3. TorInStep(r)'
    BY <1>5, <2>1 DEF TryEmpty, Write, TorTypeOK, TorInStep, Unread
  <2>4. Others(r)
    BY <1>5 DEF TryEmpty, Write, TorTypeOK, Others
  <2> QED BY <2>2, <2>3, <2>4, OneRun
<1>6. CASE ReadEmpty(r)
  <2>1. /\ step[r] = "empty" /\ inbox[r] \in {<<>>, <<"end">>, <<"fail">>}
        /\ ~ onion[r]
    BY <1>6 DEF ReadEmpty, TorInStep, Unread
  <2>2. ~ asked[r]
    BY <1>6 DEF ReadEmpty, HasLine, TorInStep
  <2>3. inbox'[r] = <<>> /\ inbox' \in [Run -> Texts]
    BY <1>6, <2>1, FirstLine DEF ReadEmpty, TakeLine, TorTypeOK, Texts
  <2>4. TorTypeOK'
    BY <1>6, <2>3 DEF ReadEmpty, TorTypeOK
  <2>5. TorInStep(r)'
    BY <1>6, <2>1, <2>2, <2>3 DEF ReadEmpty, TorTypeOK, TorInStep, Unread
  <2>6. Others(r)
    BY <1>6 DEF ReadEmpty, TakeLine, TorTypeOK, Others
  <2> QED BY <2>4, <2>5, <2>6, OneRun
<1> QED BY <1>1, <1>2, <1>3, <1>4, <1>5, <1>6

\* create_hidden_service and destroy_hidden_service keep the invariant.
LEMMA ServiceInv ==
    ASSUME TorInv, NEW r \in Run,
           CreateService(r) \/ ReadAdd(r) \/ MockService(r) \/ DestroyService(r) \/ ReadDel(r)
    PROVE  TorInv'
<1> USE DEF TorInv, Goto, Asking
<1>1. CASE CreateService(r)
  <2>1. step[r] = "idle" /\ ~ active[r] /\ inbox[r] = <<>> /\ ~ asked[r] /\ ~ onion[r]
    BY <1>1 DEF CreateService, TorInStep, Unread
  <2>2. TorTypeOK'
    BY <1>1 DEF CreateService, Write, TorTypeOK
  <2>3. TorInStep(r)'
    BY <1>1, <2>1 DEF CreateService, Write, TorTypeOK, TorInStep, Unread
  <2>4. Others(r)
    BY <1>1 DEF CreateService, Write, TorTypeOK, Others
  <2> QED BY <2>2, <2>3, <2>4, OneRun
<1>2. CASE ReadAdd(r)
  <2>1. /\ inbox[r] # <<>> /\ ~ asked[r]
        /\ step[r] = "add" => inbox[r] \in {<<"id", "end">>, <<"id">>, <<"fail">>}
        /\ step[r] = "added" => inbox[r] = <<"end">>
        /\ step[r] \in {"add", "added"}
        /\ inbox' = [inbox EXCEPT ![r] = Tail(inbox[r])]
    BY <1>2 DEF ReadAdd, TakeLine, TorInStep, Unread
  <2>2. CASE step[r] = "add" /\ inbox[r] \in {<<"id", "end">>, <<"id">>}
    <3>1. step' = [step EXCEPT ![r] = "added"] /\ UNCHANGED active
      BY <1>2, <2>2, FirstLine DEF ReadAdd, Line
    <3>2. inbox'[r] \in {<<"end">>, <<>>}
      BY <2>1, <2>2, FirstLine DEF TorTypeOK
    <3>3. TorTypeOK'
      BY <1>2, <2>1, <2>2, <3>1, FirstLine DEF ReadAdd, TorTypeOK, Texts
    <3>4. TorInStep(r)'
      BY <1>2, <2>1, <3>1, <3>2 DEF ReadAdd, TorTypeOK, TorInStep, Unread
    <3>5. Others(r)
      BY <1>2, <2>1, <3>1 DEF ReadAdd, TorTypeOK, Others
    <3> QED BY <3>3, <3>4, <3>5, OneRun
  <2>3. CASE step[r] = "added"
    <3>1. step' = [step EXCEPT ![r] = "idle"] /\ active' = [active EXCEPT ![r] = TRUE]
      BY <1>2, <2>1, <2>3, FirstLine DEF ReadAdd, Line
    <3>2. inbox'[r] = <<>>
      BY <2>1, <2>3, FirstLine DEF TorTypeOK
    <3>3. TorTypeOK'
      BY <1>2, <2>1, <2>3, <3>1, FirstLine DEF ReadAdd, TorTypeOK, Texts
    <3>4. TorInStep(r)'
      BY <1>2, <2>1, <3>1, <3>2 DEF ReadAdd, TorTypeOK, TorInStep, Unread
    <3>5. Others(r)
      BY <1>2, <2>1, <3>1 DEF ReadAdd, TorTypeOK, Others
    <3> QED BY <3>3, <3>4, <3>5, OneRun
  <2>4. CASE step[r] = "add" /\ inbox[r] = <<"fail">>
    <3>1. step' = [step EXCEPT ![r] = "failed"] /\ UNCHANGED active
      BY <1>2, <2>4, FirstLine DEF ReadAdd, Line
    <3>2. inbox'[r] = <<>> /\ ~ onion[r]
      BY <2>1, <2>4, FirstLine DEF TorTypeOK, TorInStep
    <3>3. TorTypeOK'
      BY <1>2, <2>1, <2>4, <3>1, FirstLine DEF ReadAdd, TorTypeOK, Texts
    <3>4. TorInStep(r)'
      BY <1>2, <2>1, <3>1, <3>2 DEF ReadAdd, TorTypeOK, TorInStep, Unread
    <3>5. Others(r)
      BY <1>2, <2>1, <3>1 DEF ReadAdd, TorTypeOK, Others
    <3> QED BY <3>3, <3>4, <3>5, OneRun
  <2> QED BY <2>1, <2>2, <2>3, <2>4
<1>3. CASE MockService(r)
  <2>1. step[r] = "off" /\ inbox[r] = <<>> /\ ~ asked[r] /\ ~ onion[r]
    BY <1>3 DEF MockService, TorInStep, Unread
  <2>2. TorTypeOK'
    BY <1>3 DEF MockService, TorTypeOK
  <2>3. TorInStep(r)'
    BY <1>3, <2>1 DEF MockService, TorTypeOK, TorInStep, Unread
  <2>4. Others(r)
    BY <1>3 DEF MockService, TorTypeOK, Others
  <2> QED BY <2>2, <2>3, <2>4, OneRun
<1>4. CASE DestroyService(r)
  <2>1. step[r] = "idle" /\ inbox[r] = <<>> /\ ~ asked[r]
    BY <1>4 DEF DestroyService, TorInStep, Unread
  <2>2. TorTypeOK'
    BY <1>4 DEF DestroyService, Write, TorTypeOK
  <2>3. TorInStep(r)'
    BY <1>4, <2>1 DEF DestroyService, Write, TorTypeOK, TorInStep, Unread
  <2>4. Others(r)
    BY <1>4 DEF DestroyService, Write, TorTypeOK, Others
  <2> QED BY <2>2, <2>3, <2>4, OneRun
<1>5. CASE ReadDel(r)
  <2>1. /\ step[r] = "del" /\ inbox[r] \in {<<>>, <<"end">>}
        /\ ~ asked[r] /\ ~ onion[r]
    BY <1>5 DEF ReadDel, HasLine, TorInStep, Unread
  <2>2. inbox'[r] = <<>> /\ inbox' \in [Run -> Texts]
    BY <1>5, <2>1, FirstLine DEF ReadDel, TakeLine, TorTypeOK, Texts
  <2>3. TorTypeOK'
    BY <1>5, <2>2 DEF ReadDel, TorTypeOK
  <2>4. TorInStep(r)'
    BY <1>5, <2>1, <2>2 DEF ReadDel, TorTypeOK, TorInStep, Unread
  <2>5. Others(r)
    BY <1>5 DEF ReadDel, TakeLine, TorTypeOK, Others
  <2> QED BY <2>3, <2>4, <2>5, OneRun
<1> QED BY <1>1, <1>2, <1>3, <1>4, <1>5

\* An answer of Tor keeps the invariant: it comes when nothing is unread.
LEMMA AnswerInv == ASSUME TorInv, NEW r \in Run, Answer(r) PROVE TorInv'
<1> USE DEF TorInv
<1>1. /\ asked[r] /\ open[r] /\ inbox[r] = <<>> /\ step[r] \in Asking
      /\ asked' = [asked EXCEPT ![r] = FALSE]
      /\ UNCHANGED <<mock, step, tries, active, torUp>>
  BY DEF Answer, TorInStep
<1>2. PICK a \in Answers(r) :
         /\ inbox' = [inbox EXCEPT ![r] = inbox[r] \o a]
         /\ open' = [open EXCEPT ![r] = ~ (step[r] \in {"auth", "empty"} /\ a = <<"fail">>)]
         /\ onion' = [onion EXCEPT ![r] = \/ "id" \in {a[i] : i \in DOMAIN a}
                                          \/ onion[r] /\ step[r] # "del"]
  BY DEF Answer
<1>3. /\ step[r] = "info" => a \in {<<"cookiefile", "end">>, <<"end">>, <<"fail">>}
      /\ step[r] \in {"auth", "empty"} => a \in {<<"end">>, <<"fail">>}
      /\ step[r] = "add" => a \in {<<"id", "end">>, <<"fail">>}
      /\ step[r] = "del" => a = <<"end">>
  BY <1>1 DEF Answers, Asking
<1>4. a \in Texts /\ inbox'[r] = a
  BY <1>1, <1>2, <1>3 DEF TorTypeOK, Texts, Asking
<1>5. "id" \in {a[i] : i \in DOMAIN a} => step[r] = "add" /\ a = <<"id", "end">>
  BY <1>1, <1>3 DEF Asking
<1>6. TorTypeOK'
  BY <1>1, <1>2, <1>4 DEF TorTypeOK, Texts
<1>7. TorInStep(r)'
  BY <1>1, <1>2, <1>3, <1>4, <1>5 DEF TorTypeOK, TorInStep, Unread, Asking
<1>8. Others(r)
  BY <1>1, <1>2 DEF TorTypeOK, Others
<1> QED BY <1>6, <1>7, <1>8, OneRun

\* The end of a process keeps the invariant.
LEMMA DropInv == ASSUME TorInv, NEW r \in Run, TorDrop(r) PROVE TorInv'
<1> USE DEF TorInv, TorDrop
<1>1. TorTypeOK'
  BY DEF TorTypeOK, Texts
<1>2. TorInStep(r)'
  BY DEF TorTypeOK, TorInStep, Unread
<1>3. Others(r)
  BY DEF TorTypeOK, Others
<1> QED BY <1>1, <1>2, <1>3, OneRun

\* The end of Tor keeps the invariant: its services go with it.
LEMMA StopsInv == ASSUME TorInv, TorStops PROVE TorInv'
<1>1. PICK kept \in [Run -> 0 .. Longest] :
          /\ \A r \in Run : kept[r] <= Len(inbox[r])
          /\ inbox' = [r \in Run |-> SubSeq(inbox[r], 1, kept[r])]
  BY DEF TorStops
<1>2. ASSUME NEW r \in Run
      PROVE  inbox'[r] \in Texts /\ inbox'[r] \in Unread(step[r])
  <2>1. inbox[r] \in Texts /\ inbox[r] \in Unread(step[r])
    BY DEF TorInv, TorTypeOK, TorInStep
  <2>2. inbox'[r] = SubSeq(inbox[r], 1, kept[r]) /\ kept[r] \in 0 .. Len(inbox[r])
    BY <1>1, <2>1, TextLen DEF Longest
  <2>3. inbox'[r] \in Cut(inbox[r])
    BY <2>1, <2>2, CutLine
  <2> QED BY <2>1, <2>3, CutUnread
<1>3. TorTypeOK'
  <2>1. inbox' \in [Run -> Texts]
    BY <1>1, <1>2
  <2> QED BY <2>1 DEF TorStops, TorInv, TorTypeOK
<1>4. ASSUME NEW r \in Run PROVE TorInStep(r)'
  <2>1. ~ open'[r] /\ ~ onion'[r] /\ ~ asked'[r]
    BY DEF TorStops
  <2>2. inbox'[r] \in Unread(step'[r])
    BY <1>2 DEF TorStops
  <2> QED BY <2>1, <2>2 DEF TorStops, TorInv, TorInStep
<1> QED BY <1>3, <1>4 DEF TorInv

\* Every step keeps the invariant.
LEMMA TorNextInv == TorInv /\ [TorNext]_torVars => TorInv'
<1> SUFFICES ASSUME TorInv, [TorNext]_torVars PROVE TorInv'
  OBVIOUS
<1>1. CASE UNCHANGED torVars
  BY <1>1 DEF torVars, TorInv, TorTypeOK, TorInStep
<1>2. CASE TorNext
  BY <1>2, StopsInv, ConnectInv, ServiceInv, AnswerInv, DropInv DEF TorNext, TorStep
<1> QED BY <1>1, <1>2

\* The invariant holds in every state.
LEMMA TorInvHolds == TorSpec => []TorInv
BY TorInitInv, TorNextInv, PTL DEF TorSpec

\* Every variable stays in its type.
THEOREM TorTypeCorrect == TorSpec => []TorTypeOK
BY TorInvHolds, PTL DEF TorInv

\* A reply is never taken for that of another command.
THEOREM RepliesAlwaysInStep == TorSpec => []RepliesInStep
<1>1. TorInv => RepliesInStep
  BY DEF TorInv, TorInStep, RepliesInStep
<1> QED BY TorInvHolds, <1>1, PTL

\* Tor never keeps a service its controller has lost sight of.
THEOREM NeverOrphaned == TorSpec => []NoOrphans
<1>1. TorInv => NoOrphans
  BY DEF TorInv, TorInStep, NoOrphans
<1> QED BY TorInvHolds, <1>1, PTL

------------------------------------------------------------------------------
\* The runs together.

\* A step that neither the profile nor the control port takes part in.
LEMMA Apart == UNCHANGED <<profileVars, torVars>> =>
                  [ProfileNext]_profileVars /\ [TorNext]_torVars
OBVIOUS

\* The end of a run is the end of its connection to Tor.
LEMMA ExitStep == ASSUME NEW r \in Run, Release(r)
                  PROVE  [ProfileNext]_profileVars /\ [TorNext]_torVars
BY DEF Release, TorNext

\* Nor does a run that gets no connection do anything else with them.
LEMMA UnconnectedStep == ASSUME NEW r \in Run, Unconnected(r)
                         PROVE  [ProfileNext]_profileVars /\ [TorNext]_torVars
<1>1. Exit(r) \/ UNCHANGED <<profileVars, torVars>>
  BY DEF Unconnected
<1> QED BY <1>1, ExitStep, Apart DEF Exit

\* Every step of a run by itself.
LEMMA RunStepTogether == ASSUME NEW r \in Run, RunStep(r)
                         PROVE  [ProfileNext]_profileVars /\ [TorNext]_torVars
<1>1. CASE OpenKeyFile(r) \/ FillKeyFile(r) \/ KeyFileFails(r)
  BY <1>1 DEF OpenKeyFile, FillKeyFile, KeyFileFails
<1>2. CASE Onion(r)
  BY <1>2 DEF Onion, TorNext
<1>3. CASE OnionFails(r)
  BY <1>3, ExitStep DEF OnionFails, Exit
<1>4. CASE Spawn(r)
  BY <1>4 DEF Spawn
<1>5. CASE Dial(r)
  BY <1>5 DEF Dial
<1>12. CASE Refused(r)
  BY <1>12, UnconnectedStep DEF Refused
<1>6. CASE Told(r)
  BY <1>6 DEF Told, Leave
<1>7. CASE Destroy(r)
  BY <1>7 DEF Destroy, TorNext
<1>8. CASE Cancel(r)
  BY <1>8 DEF Cancel
<1>9. CASE Await(r)
  BY <1>9, ExitStep DEF Await, Exit
<1>10. CASE Bind(r) \/ RelayStops(r)
  BY <1>10 DEF Bind, RelayStops
<1>11. CASE TorStep(r) /\ UNCHANGED <<hostVars, profileVars>>
  BY <1>11 DEF TorNext
<1> QED BY <1>1, <1>2, <1>3, <1>4, <1>5, <1>6, <1>7, <1>8, <1>9, <1>10, <1>11,
       <1>12 DEF RunStep

\* Every step of the whole is one of the profile or none, and one of the control
\* port or none.
LEMMA StepTogether == [Next]_vars => [ProfileNext]_profileVars /\ [TorNext]_torVars
<1> SUFFICES ASSUME [Next]_vars
             PROVE  [ProfileNext]_profileVars /\ [TorNext]_torVars
  OBVIOUS
<1>1. CASE Quiet /\ ProfileNext /\ UNCHANGED <<hostVars, torVars>>
  BY <1>1
<1>2. CASE TorStops /\ UNCHANGED <<hostVars, profileVars>>
  BY <1>2 DEF TorNext
<1>3. ASSUME NEW r \in Run, Start(r)
      PROVE  [ProfileNext]_profileVars /\ [TorNext]_torVars
  <2>1. UNCHANGED torVars /\ (LoadFromDisk \/ UNCHANGED profileVars)
    BY <1>3 DEF Start
  <2> QED BY <2>1 DEF ProfileNext
<1>4. ASSUME NEW r \in Run, RunStep(r)
      PROVE  [ProfileNext]_profileVars /\ [TorNext]_torVars
  BY <1>4, RunStepTogether
<1>5. ASSUME NEW r \in Run, Served(r)
      PROVE  [ProfileNext]_profileVars /\ [TorNext]_torVars
  <2>1. CASE Answer(r) /\ UNCHANGED <<hostVars, profileVars>>
    BY <2>1 DEF TorNext
  <2>2. CASE Connect(r) \/ Sent(r)
    BY <2>2 DEF Connect, Sent
  <2>3. CASE ConnectFails(r)
    BY <2>3, UnconnectedStep DEF ConnectFails
  <2> QED BY <1>5, <2>1, <2>2, <2>3 DEF Served
<1>6. ASSUME NEW r \in Run, Send(r) \/ Leave(r) \/ CtrlC(r)
      PROVE  [ProfileNext]_profileVars /\ [TorNext]_torVars
  BY <1>6 DEF Send, Leave, CtrlC
<1>7. ASSUME NEW r \in Run, LastKey(r) \/ Killed(r)
      PROVE  [ProfileNext]_profileVars /\ [TorNext]_torVars
  <2>1. Exit(r) \/ UNCHANGED <<profileVars, torVars>>
    BY <1>7 DEF LastKey, Killed
  <2> QED BY <2>1, ExitStep, Apart DEF Exit
<1>8. ASSUME NEW r \in Run, Invite(r)
      PROVE  [ProfileNext]_profileVars /\ [TorNext]_torVars
  BY <1>8 DEF Invite, ProfileNext
<1>9. CASE Expire \/ Join
  BY <1>9 DEF Expire, Join
<1>10. CASE UNCHANGED vars
  BY <1>10 DEF vars
<1> QED BY <1>1, <1>2, <1>3, <1>4, <1>5, <1>6, <1>7, <1>8, <1>9, <1>10 DEF Next

\* The initial states of the whole are initial states of its parts.
LEMMA InitTogether == HostingInit => ProfileInit /\ TorInit
<1> SUFFICES ASSUME HostingInit PROVE TorInit
  BY DEF HostingInit
<1>1. mock \in [Run -> BOOLEAN]
  BY HostingAssumption DEF HostingInit, Ways
<1> QED BY <1>1 DEF HostingInit, TorInit

\* Among the runs of a host the profile behaves as it does alone.
THEOREM ProfileAlone == Spec => ProfileSpec
<1>1. HostingInit => ProfileInit
  BY InitTogether
<1>2. [Next]_vars => [ProfileNext]_profileVars
  BY StepTogether
<1> QED BY <1>1, <1>2, PTL DEF Spec, ProfileSpec

\* And so does the control port, in all runs together.
THEOREM TorAlone == Spec => TorSpec
<1>1. HostingInit => TorInit
  BY InitTogether
<1>2. [Next]_vars => [TorNext]_torVars
  BY StepTogether
<1> QED BY <1>1, <1>2, PTL DEF Spec, TorSpec

\* No interleaving of runs, stops and invitations splits the files of the profile,
\* replaces an identity that was named, confuses two replies of Tor or leaves a
\* service behind.
THEOREM PartsKeepTheirWord ==
    Spec => [](FilesAgree /\ IdentityLasts /\ RepliesInStep /\ NoOrphans)
BY ProfileAlone, TorAlone, FilesAlwaysAgree, NamedIdentityLasts, RepliesAlwaysInStep,
   NeverOrphaned, PTL
=============================================================================
