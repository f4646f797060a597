--------------------------- MODULE ContractProofs ---------------------------
(***************************************************************************)
(* Proofs about Contract, for any number of requests, terms, amendments.   *)
(* Types and the numbering of amendments hold whatever requests overlap.   *)
(* What is signed is proved sound under the weakest conditions found on    *)
(* which requests overlap (DraftsApart, SignersApart, AmendersApart); all  *)
(* other overlaps are harmless.  OneAtATime implies the three conditions.  *)
(***************************************************************************)
EXTENDS Contract, SequenceTheorems, TLAPS

\* While an administrator's requestSignature is between its check and its
\* commit, no other saveDraft or requestSignature is.
DraftsApart ==
  \A r, s \in Request :
    r # s /\ req[r].op = "requestSignature" =>
      req[s].op \notin {"saveDraft", "requestSignature"}

\* No two signatures of the contract are between their check and their commit.
SignersApart ==
  \A r, s \in Request : req[r].op = "sign" /\ req[s].op = "sign" => r = s

\* The same for two requests to sign, or two signatures, of one amendment.
AmendersApart ==
  \A r, s \in Request :
    (/\ req[r].op \in {"requestAmendmentSignature", "signAmendment"}
     /\ req[s].op = req[r].op
     /\ req[s].doc = req[r].doc) => r = s

\* One request of the administrators and one of the client at a time.
OneAtATime ==
  /\ \A r, s \in Admin : r = s
  /\ \A r, s \in Client : r = s

AdminOp == {"saveDraft", "requestSignature", "readAmendment", "requestAmendmentSignature"}
ClientOp == {"sign", "signAmendment"}
AmendmentOp == {"readAmendment", "requestAmendmentSignature", "signAmendment"}

\* What a request in flight can rely on, whatever else is in flight: who makes
\* it, that its rows exist, and that its amendment number is at most the next.
RequestOK(r) ==
  /\ req[r].op \in AdminOp => r \in Admin
  /\ req[r].op \in ClientOp => r \in Client
  /\ req[r].op = "saveDraft" => req[r].terms \in Terms
  /\ req[r].op \in {"requestSignature", "sign"} => contract \in Row
  /\ req[r].op = "insertAmendment" => req[r].doc \in 1 .. Len(amendments) + 1
  /\ req[r].op \in AmendmentOp => req[r].doc \in 1 .. Len(amendments)

WInv == TypeOK /\ Numbered /\ \A r \in Request : RequestOK(r)

\* Under DraftsApart: what a request on the contract has read and still relies
\* on when it writes.  A second signature may find the contract signed.
DraftFresh(r) ==
  /\ req[r].op = "saveDraft" => contract.status \in {"none", "draft"}
  /\ req[r].op = "requestSignature" =>
       contract.status = "draft" /\ req[r].text \in TextsOf(contract.terms)
  /\ req[r].op = "sign" =>
       /\ contract.status \in {"pending_signature", "signed"}
       /\ contract.status = "pending_signature" => req[r].seen = contract
       /\ req[r].text \in TextsOf(contract.terms)
       /\ req[r].seen.snapshot # None => req[r].text = contract.snapshot

\* Overlapping signatures have read the same row.
SignersAgree ==
  \A r, s \in Request : req[r].op = "sign" /\ req[s].op = "sign" => req[r].seen = req[s].seen

\* A contract sent for signature carries a text of its terms, or none yet.
PendingText ==
  contract.status = "pending_signature" => \/ contract.snapshot = None
                                           \/ contract.snapshot \in TextsOf(contract.terms)

DInv ==
  /\ WInv
  /\ \A r \in Request : DraftFresh(r)
  /\ SignersAgree
  /\ PendingText
  /\ SignedTextAudited

\* Under SignersApart too: the contract a signature or an amendment rests on.
CiteFresh(r) ==
  /\ req[r].op = "sign" => contract.status = "pending_signature"
  /\ req[r].op \in {"readAmendment", "requestAmendmentSignature"} =>
       contract.status = "signed" /\ req[r].seen = contract
  /\ req[r].op = "requestAmendmentSignature" => req[r].text = contract.snapshot
  /\ req[r].op = "signAmendment" =>
       amendments[req[r].doc].status # "draft" /\ req[r].text = contract.snapshot

CInv == DInv /\ (\A r \in Request : CiteFresh(r)) /\ AmendmentsCiteContract

\* Under AmendersApart too: the amendment a request is about to write.
AmendFresh(r) ==
  /\ req[r].op = "requestAmendmentSignature" => amendments[req[r].doc].status = "draft"
  /\ req[r].op = "signAmendment" => amendments[req[r].doc].status = "pending_signature"

AInv == CInv /\ \A r \in Request : AmendFresh(r)

-----------------------------------------------------------------------------
(* Types and numbering, whatever overlaps.                                 *)

\* Before any request the rows are well formed.
LEMMA WInit == Init => WInv
  BY ContractAssumption
  DEF Init, WInv, TypeOK, Numbered, RequestOK, NoContract, Legacy, Idle, Row,
      Status, Op, Main, Document, AdminOp, ClientOp, AmendmentOp, Request

\* Every step of every request keeps the rows well formed.
LEMMA WStep == WInv /\ [Next]_vars => WInv'
  <1> SUFFICES ASSUME WInv, [Next]_vars PROVE WInv'
    OBVIOUS
  <1> USE ContractAssumption
      DEF WInv, TypeOK, Numbered, RequestOK, NoContract, Idle, Row, Status, Op,
          Main, Document, AdminOp, ClientOp, AmendmentOp
  <1>1. ASSUME NEW r \in Request, NEW t \in Terms, NEW n \in Name,
               SaveDraftRead(r, t, n)
        PROVE  WInv'
    BY <1>1 DEF SaveDraftRead, Proceed
  <1>2. ASSUME NEW r \in Request, SaveDraftWrite(r) PROVE WInv'
    BY <1>2 DEF SaveDraftWrite, Commit
  <1>3. ASSUME NEW r \in Request, NEW n \in Name, RequestSignatureRead(r, n) PROVE WInv'
    BY <1>3 DEF RequestSignatureRead, Proceed
  <1>4. ASSUME NEW r \in Request, RequestSignatureWrite(r) PROVE WInv'
    <2>1. req[r].op \in Op /\ RequestOK(r)
      OBVIOUS
    <2>2. contract \in Row /\ contract' \in Row
      BY <1>4, <2>1 DEF RequestSignatureWrite
    <2>3. UNCHANGED amendments /\ req' = [req EXCEPT ![r] = Idle]
      BY <1>4 DEF RequestSignatureWrite, Commit
    <2>4. \A x \in audit' : x.doc \in Document /\ x.hash \in Text \cup {None}
      BY <1>4 DEF RequestSignatureWrite, Commit
    <2>5. QED
      BY <2>2, <2>3, <2>4
  <1>5. ASSUME NEW r \in Request, NEW n \in Name, SignRead(r, n) PROVE WInv'
    BY <1>5 DEF SignRead, Proceed
  <1>6. ASSUME NEW r \in Request, SignWrite(r) PROVE WInv'
    <2>1. req[r].op \in Op /\ RequestOK(r)
      OBVIOUS
    <2>2. contract \in Row /\ contract' \in Row
      BY <1>6, <2>1 DEF SignWrite
    <2>3. UNCHANGED amendments /\ req' = [req EXCEPT ![r] = Idle]
      BY <1>6 DEF SignWrite, Commit
    <2>4. \A x \in audit' : x.doc \in Document /\ x.hash \in Text \cup {None}
      BY <1>6 DEF SignWrite, Commit
    <2>5. QED
      BY <2>2, <2>3, <2>4
  <1>7. ASSUME NEW r \in Request,
               SaveAmendmentDraftRead(r) \/ RequestClientAmendmentRead(r)
        PROVE  WInv'
    <2>1. /\ req' = [req EXCEPT ![r] = [op |-> "numberAmendment", terms |-> None, text |-> None,
                                        seen |-> contract, doc |-> Main]]
          /\ UNCHANGED <<contract, amendments, audit>>
      BY <1>7 DEF SaveAmendmentDraftRead, RequestClientAmendmentRead, Proceed
    <2>2. TypeOK'
      BY <2>1
    <2>3. \A q \in Request : RequestOK(q)'
      BY <2>1
    <2>4. QED
      BY <2>1, <2>2, <2>3
  <1>8. ASSUME NEW r \in Request, CreateAmendmentNumber(r) PROVE WInv'
    BY <1>8 DEF CreateAmendmentNumber, Proceed
  <1>9. ASSUME NEW r \in Request, CreateAmendmentInsert(r) PROVE WInv'
    BY <1>9 DEF CreateAmendmentInsert, Commit, NewAmendment, AmendmentRow
  <1>10. ASSUME NEW r \in Request, NEW a \in 1 .. Len(amendments),
                RequestAmendmentSignatureRead(r, a)
         PROVE  WInv'
    <2>1. a \in Document
      <3>1. amendments[a].number = a
        OBVIOUS
      <3>2. amendments[a] \in AmendmentRow
        BY ElementOfSeq
      <3>3. QED
        BY <3>1, <3>2 DEF AmendmentRow
    <2>2. QED
      BY <1>10, <2>1 DEF RequestAmendmentSignatureRead, Proceed
  <1>11. ASSUME NEW r \in Request, NEW a \in 1 .. Len(amendments),
                SignAmendmentRead(r, a)
         PROVE  WInv'
    <2>1. a \in Document
      <3>1. amendments[a].number = a
        OBVIOUS
      <3>2. amendments[a] \in AmendmentRow
        BY ElementOfSeq
      <3>3. QED
        BY <3>1, <3>2 DEF AmendmentRow
    <2>2. amendments[a].snapshot \in Text \cup {None}
      <3>1. amendments[a] \in AmendmentRow
        BY ElementOfSeq
      <3>2. QED
        BY <3>1 DEF AmendmentRow
    <2>3. QED
      BY <1>11, <2>1, <2>2 DEF SignAmendmentRead, Proceed
  <1>12. ASSUME NEW r \in Request, RequestAmendmentSignatureBuild(r) PROVE WInv'
    BY <1>12 DEF RequestAmendmentSignatureBuild, Proceed
  <1>13. ASSUME NEW r \in Request, RequestAmendmentSignatureWrite(r) PROVE WInv'
    <2>1. req[r].doc \in 1 .. Len(amendments) /\ (req[r].op = "signAmendment" => r \in Client)
      BY <1>13 DEF RequestAmendmentSignatureWrite
    <2>2. amendments' \in Seq(AmendmentRow)
      <3> DEFINE row == [amendments[req[r].doc] EXCEPT !.status = "pending_signature", !.snapshot = req[r].text]
      <3>1. amendments[req[r].doc] \in AmendmentRow
        BY <2>1, ElementOfSeq
      <3>2. row \in AmendmentRow
        BY <1>13, <2>1, <3>1 DEF AmendmentRow, RequestAmendmentSignatureWrite
      <3>3. amendments' = [amendments EXCEPT ![req[r].doc] = row]
        BY <1>13 DEF RequestAmendmentSignatureWrite
      <3>4. QED
        BY <2>1, <3>2, <3>3, ExceptSeq
    <2>3. Len(amendments') = Len(amendments)
      BY <1>13 DEF RequestAmendmentSignatureWrite
    <2>4. \A i \in 1 .. Len(amendments) : amendments'[i].number = amendments[i].number
      BY <1>13, <2>1 DEF RequestAmendmentSignatureWrite
    <2>5. UNCHANGED contract /\ req' = [req EXCEPT ![r] = Idle]
      BY <1>13 DEF RequestAmendmentSignatureWrite, Commit
    <2>6. \A x \in audit' : x.doc \in Document /\ x.hash \in Text \cup {None}
      BY <1>13 DEF RequestAmendmentSignatureWrite, Commit
    <2>7. TypeOK'
      BY <2>2, <2>5, <2>6
    <2>8. \A q \in Request : RequestOK(q)'
      BY <2>3, <2>5
    <2>9. QED
      BY <2>3, <2>4, <2>7, <2>8
  <1>14. ASSUME NEW r \in Request, SignAmendmentWrite(r) PROVE WInv'
    <2>1. req[r].doc \in 1 .. Len(amendments) /\ (req[r].op = "signAmendment" => r \in Client)
      BY <1>14 DEF SignAmendmentWrite
    <2>2. amendments' \in Seq(AmendmentRow)
      <3> DEFINE row == [amendments[req[r].doc] EXCEPT !.status = "signed", !.signer = r]
      <3>1. amendments[req[r].doc] \in AmendmentRow
        BY <2>1, ElementOfSeq
      <3>2. row \in AmendmentRow
        BY <1>14, <2>1, <3>1 DEF AmendmentRow, SignAmendmentWrite
      <3>3. amendments' = [amendments EXCEPT ![req[r].doc] = row]
        BY <1>14 DEF SignAmendmentWrite
      <3>4. QED
        BY <2>1, <3>2, <3>3, ExceptSeq
    <2>3. Len(amendments') = Len(amendments)
      BY <1>14 DEF SignAmendmentWrite
    <2>4. \A i \in 1 .. Len(amendments) : amendments'[i].number = amendments[i].number
      BY <1>14, <2>1 DEF SignAmendmentWrite
    <2>5. UNCHANGED contract /\ req' = [req EXCEPT ![r] = Idle]
      BY <1>14 DEF SignAmendmentWrite, Commit
    <2>6. \A x \in audit' : x.doc \in Document /\ x.hash \in Text \cup {None}
      BY <1>14 DEF SignAmendmentWrite, Commit
    <2>7. TypeOK'
      BY <2>2, <2>5, <2>6
    <2>8. \A q \in Request : RequestOK(q)'
      BY <2>3, <2>5
    <2>9. QED
      BY <2>3, <2>4, <2>7, <2>8
  <1>15. ASSUME NEW r \in Request, Fail(r) PROVE WInv'
    BY <1>15 DEF Fail
  <1>16. CASE UNCHANGED vars
    BY <1>16 DEF vars
  <1>17. QED
    BY <1>1, <1>2, <1>3, <1>4, <1>5, <1>6, <1>7, <1>8, <1>9, <1>10, <1>11, <1>12,
       <1>13, <1>14, <1>15, <1>16, Zenon
    DEF Next

\* The rows stay well formed whatever requests overlap.
LEMMA WAlways == Spec => []WInv
  BY WInit, WStep, PTL DEF Spec

\* Every variable of Contract keeps its type, whatever requests overlap.
THEOREM ContractTypeCorrect == Spec => []TypeOK
  <1>1. WInv => TypeOK
    BY DEF WInv
  <1>2. QED
    BY <1>1, WAlways, PTL

\* Concurrent saveAmendmentDraft and requestClientAmendment never produce a
\* repeated or a missing amendment number.
THEOREM AmendmentsNumbered == Spec => []Numbered
  <1>1. WInv => Numbered
    BY DEF WInv
  <1>2. QED
    BY <1>1, WAlways, PTL

-----------------------------------------------------------------------------
(* The text of the contract, under DraftsApart.                            *)

\* The invariant holds before any request.
LEMMA DInit == Init => DInv
  BY WInit
  DEF Init, DInv, DraftFresh, SignersAgree, PendingText, SignedTextAudited,
      NoContract, Legacy, Idle

\* Every step keeps the invariant, as long as drafts are apart.
LEMMA DStep ==
  ASSUME DraftsApart, DInv, [Next]_vars
  PROVE  DInv'
  <1>0. WInv'
    BY WStep DEF DInv
  <1> USE <1>0 DEF DInv
  <1>1. ASSUME NEW r \in Request, NEW t \in Terms, NEW n \in Name, SaveDraftRead(r, t, n)
        PROVE  DInv'
    <2>1. ASSUME NEW q \in Request PROVE DraftFresh(q)'
      <3>1. contract.status \in {"none", "draft"}
        BY <1>1 DEF SaveDraftRead, WInv, TypeOK, Row, NoContract, Status
      <3>2. QED
        BY <1>1, <3>1
        DEF SaveDraftRead, Proceed, DraftFresh, WInv, TypeOK, RequestOK,
            AdminOp, ClientOp
    <2>2. SignersAgree' /\ PendingText' /\ SignedTextAudited'
      BY <1>1 DEF SaveDraftRead, Proceed, DraftFresh, SignersAgree, PendingText,
         SignedTextAudited, WInv, TypeOK
    <2>3. QED
      BY <2>1, <2>2
  <1>2. ASSUME NEW r \in Request, SaveDraftWrite(r) PROVE DInv'
    <2>1. ASSUME NEW q \in Request PROVE DraftFresh(q)'
      BY <1>2
      DEF SaveDraftWrite, Commit, Idle, DraftFresh, DraftsApart, WInv, TypeOK,
          RequestOK, AdminOp, ClientOp
    <2>2. SignersAgree' /\ PendingText' /\ SignedTextAudited'
      BY <1>2 DEF SaveDraftWrite, Commit, Idle, DraftFresh, SignersAgree, PendingText,
         SignedTextAudited, WInv, TypeOK
    <2>3. QED
      BY <2>1, <2>2
  <1>3. ASSUME NEW r \in Request, NEW n \in Name, RequestSignatureRead(r, n) PROVE DInv'
    <2>1. ASSUME NEW q \in Request PROVE DraftFresh(q)'
      <3>1. Render[contract.terms][n] \in TextsOf(contract.terms)
        BY DEF TextsOf
      <3>2. QED
        BY <1>3, <3>1
        DEF RequestSignatureRead, Proceed, DraftFresh, PendingText, WInv,
            TypeOK, RequestOK, AdminOp, ClientOp
    <2>2. SignersAgree' /\ PendingText' /\ SignedTextAudited'
      BY <1>3 DEF RequestSignatureRead, Proceed, DraftFresh, SignersAgree, PendingText,
         SignedTextAudited, WInv, TypeOK
    <2>3. QED
      BY <2>1, <2>2
  <1>4. ASSUME NEW r \in Request, RequestSignatureWrite(r) PROVE DInv'
    <2>1. contract \in Row
      BY <1>4 DEF RequestSignatureWrite, WInv, RequestOK
    <2>2. contract'.status = "pending_signature" /\ contract'.snapshot = req[r].text
            /\ contract'.terms = contract.terms
      BY <1>4, <2>1 DEF RequestSignatureWrite, Row, DraftFresh
    <2>3. ASSUME NEW q \in Request PROVE DraftFresh(q)'
      BY <1>4, <2>2
      DEF RequestSignatureWrite, Commit, Idle, DraftFresh, DraftsApart,
          SignersAgree, WInv, TypeOK, RequestOK, AdminOp, ClientOp
    <2>4. SignersAgree' /\ PendingText'
      BY <1>4, <2>2
      DEF RequestSignatureWrite, Commit, Idle, DraftFresh, SignersAgree,
          PendingText, WInv, TypeOK
    <2>5. SignedTextAudited'
      BY <2>2 DEF SignedTextAudited
    <2>6. QED
      BY <2>3, <2>4, <2>5
  <1>5. ASSUME NEW r \in Request, NEW n \in Name, SignRead(r, n) PROVE DInv'
    <2>1. ASSUME NEW q \in Request PROVE DraftFresh(q)'
      <3>1. Render[contract.terms][n] \in TextsOf(contract.terms)
        BY DEF TextsOf
      <3>2. QED
        BY <1>5, <3>1
        DEF SignRead, Proceed, DraftFresh, PendingText, WInv, TypeOK, RequestOK,
            AdminOp, ClientOp
    <2>2. SignersAgree' /\ PendingText' /\ SignedTextAudited'
      BY <1>5 DEF SignRead, Proceed, DraftFresh, SignersAgree, PendingText,
         SignedTextAudited, WInv, TypeOK
    <2>3. QED
      BY <2>1, <2>2
  <1>6. ASSUME NEW r \in Request, SignWrite(r) PROVE DInv'
    <2>1. contract \in Row
      BY <1>6 DEF SignWrite, WInv, RequestOK
    <2>2. contract'.status = "signed" /\ contract'.terms = contract.terms
            /\ contract'.signer = r /\ contract'.snapshot = req[r].text
      BY <1>6, <2>1 DEF SignWrite, Row, DraftFresh
    <2>3. ASSUME NEW q \in Request PROVE DraftFresh(q)'
      BY <1>6, <2>2
      DEF SignWrite, Commit, Idle, DraftFresh, DraftsApart, SignersAgree, WInv,
          TypeOK, RequestOK, AdminOp, ClientOp
    <2>4. SignersAgree' /\ PendingText'
      BY <1>6, <2>2
      DEF SignWrite, Commit, Idle, DraftFresh, SignersAgree, PendingText, WInv,
          TypeOK
    <2>5. SignedTextAudited'
      <3>1. r \in Client /\ req[r].text \in TextsOf(contract.terms)
        BY <1>6 DEF SignWrite, WInv, RequestOK, ClientOp, DraftFresh
      <3>2. [action |-> "signed", doc |-> Main, hash |-> req[r].text] \in audit'
        BY <1>6, <3>1 DEF SignWrite, Commit
      <3>3. QED
        BY <2>2, <3>1, <3>2 DEF SignedTextAudited
    <2>6. QED
      BY <2>3, <2>4, <2>5
  <1>7. ASSUME NEW r \in Request, SaveAmendmentDraftRead(r) \/ RequestClientAmendmentRead(r)
        PROVE  DInv'
    <2>1. ASSUME NEW q \in Request PROVE DraftFresh(q)'
      BY <1>7
      DEF SaveAmendmentDraftRead, RequestClientAmendmentRead, Proceed, DraftFresh,
          WInv, TypeOK, RequestOK, AdminOp, ClientOp
    <2>2. SignersAgree' /\ PendingText' /\ SignedTextAudited'
      BY <1>7
      DEF SaveAmendmentDraftRead, RequestClientAmendmentRead, Proceed, DraftFresh,
          SignersAgree, PendingText,
         SignedTextAudited, WInv, TypeOK
    <2>3. QED
      BY <2>1, <2>2
  <1>8. ASSUME NEW r \in Request, CreateAmendmentNumber(r) PROVE DInv'
    <2>1. ASSUME NEW q \in Request PROVE DraftFresh(q)'
      BY <1>8
      DEF CreateAmendmentNumber, Proceed, DraftFresh, WInv, TypeOK, RequestOK,
          AdminOp, ClientOp
    <2>2. SignersAgree' /\ PendingText' /\ SignedTextAudited'
      BY <1>8 DEF CreateAmendmentNumber, Proceed, DraftFresh, SignersAgree, PendingText,
         SignedTextAudited, WInv, TypeOK
    <2>3. QED
      BY <2>1, <2>2
  <1>9. ASSUME NEW r \in Request, CreateAmendmentInsert(r) PROVE DInv'
    <2>1. ASSUME NEW q \in Request PROVE DraftFresh(q)'
      BY <1>9
      DEF CreateAmendmentInsert, Commit, Idle, DraftFresh, WInv, TypeOK,
          RequestOK, AdminOp, ClientOp
    <2>2. SignersAgree' /\ PendingText' /\ SignedTextAudited'
      BY <1>9
      DEF CreateAmendmentInsert, Commit, Idle, DraftFresh, SignersAgree,
          PendingText,
         SignedTextAudited, WInv, TypeOK
    <2>3. QED
      BY <2>1, <2>2
  <1>10. ASSUME NEW r \in Request, NEW a \in 1 .. Len(amendments), RequestAmendmentSignatureRead(r, a)
        PROVE  DInv'
    <2>1. ASSUME NEW q \in Request PROVE DraftFresh(q)'
      BY <1>10
      DEF RequestAmendmentSignatureRead, Proceed, DraftFresh, WInv, TypeOK,
          RequestOK, AdminOp, ClientOp
    <2>2. SignersAgree' /\ PendingText' /\ SignedTextAudited'
      BY <1>10
      DEF RequestAmendmentSignatureRead, Proceed, DraftFresh, SignersAgree,
          PendingText,
         SignedTextAudited, WInv, TypeOK
    <2>3. QED
      BY <2>1, <2>2
  <1>11. ASSUME NEW r \in Request, NEW a \in 1 .. Len(amendments), SignAmendmentRead(r, a)
        PROVE  DInv'
    <2>1. ASSUME NEW q \in Request PROVE DraftFresh(q)'
      BY <1>11
      DEF SignAmendmentRead, Proceed, DraftFresh, WInv, TypeOK, RequestOK,
          AdminOp, ClientOp
    <2>2. SignersAgree' /\ PendingText' /\ SignedTextAudited'
      BY <1>11 DEF SignAmendmentRead, Proceed, DraftFresh, SignersAgree, PendingText,
         SignedTextAudited, WInv, TypeOK
    <2>3. QED
      BY <2>1, <2>2
  <1>12. ASSUME NEW r \in Request, RequestAmendmentSignatureBuild(r) PROVE DInv'
    <2>1. ASSUME NEW q \in Request PROVE DraftFresh(q)'
      BY <1>12
      DEF RequestAmendmentSignatureBuild, Proceed, DraftFresh, WInv, TypeOK,
          RequestOK, AdminOp, ClientOp
    <2>2. SignersAgree' /\ PendingText' /\ SignedTextAudited'
      BY <1>12
      DEF RequestAmendmentSignatureBuild, Proceed, DraftFresh, SignersAgree,
          PendingText,
         SignedTextAudited, WInv, TypeOK
    <2>3. QED
      BY <2>1, <2>2
  <1>13. ASSUME NEW r \in Request, RequestAmendmentSignatureWrite(r) PROVE DInv'
    <2>1. ASSUME NEW q \in Request PROVE DraftFresh(q)'
      BY <1>13
      DEF RequestAmendmentSignatureWrite, Commit, Idle, DraftFresh, WInv, TypeOK,
          RequestOK, AdminOp, ClientOp
    <2>2. SignersAgree' /\ PendingText' /\ SignedTextAudited'
      BY <1>13
      DEF RequestAmendmentSignatureWrite, Commit, Idle, DraftFresh, SignersAgree,
          PendingText,
         SignedTextAudited, WInv, TypeOK
    <2>3. QED
      BY <2>1, <2>2
  <1>14. ASSUME NEW r \in Request, SignAmendmentWrite(r) PROVE DInv'
    <2>1. ASSUME NEW q \in Request PROVE DraftFresh(q)'
      BY <1>14
      DEF SignAmendmentWrite, Commit, Idle, DraftFresh, WInv, TypeOK, RequestOK,
          AdminOp, ClientOp
    <2>2. SignersAgree' /\ PendingText' /\ SignedTextAudited'
      BY <1>14
      DEF SignAmendmentWrite, Commit, Idle, DraftFresh, SignersAgree, PendingText,
         SignedTextAudited, WInv, TypeOK
    <2>3. QED
      BY <2>1, <2>2
  <1>15. ASSUME NEW r \in Request, Fail(r) PROVE DInv'
    <2>1. ASSUME NEW q \in Request PROVE DraftFresh(q)'
      BY <1>15 DEF Fail, Idle, DraftFresh, WInv, TypeOK, RequestOK, AdminOp, ClientOp
    <2>2. SignersAgree' /\ PendingText' /\ SignedTextAudited'
      BY <1>15 DEF Fail, Idle, DraftFresh, SignersAgree, PendingText,
         SignedTextAudited, WInv, TypeOK
    <2>3. QED
      BY <2>1, <2>2
  <1>16. CASE UNCHANGED vars
    BY <1>16 DEF vars, DraftFresh, SignersAgree, PendingText, SignedTextAudited
  <1>17. QED
    BY <1>1, <1>2, <1>3, <1>4, <1>5, <1>6, <1>7, <1>8, <1>9, <1>10, <1>11, <1>12,
       <1>13, <1>14, <1>15, <1>16,
       Zenon DEF Next

\* The invariant of apart drafts.
LEMMA DAlways == Spec /\ []DraftsApart => []DInv
  <1>1. DInv /\ DraftsApart /\ [Next]_vars => DInv'
    BY DStep
  <1>2. QED
    BY <1>1, DInit, PTL DEF Spec

\* Whatever other requests overlap, signatures of the contract among them:
\* while no requestSignature overlaps a saveDraft or another requestSignature,
\* a signed contract carries a text of its own terms and a signer, and the
\* audit log holds the signature of that very text.
THEOREM SignedTextAuditedApart == Spec /\ []DraftsApart => []SignedTextAudited
  <1>1. DInv => SignedTextAudited
    BY DEF DInv
  <1>2. QED
    BY <1>1, DAlways, PTL

-----------------------------------------------------------------------------
(* What amendments cite, under SignersApart too.                           *)

\* The invariant holds before any request.
LEMMA CInit == Init => CInv
  BY DInit DEF Init, CInv, CiteFresh, AmendmentsCiteContract, Idle

\* A signature in flight is the only one and finds the row it has read.
LEMMA SignerAlone ==
  ASSUME SignersApart, CInv, NEW r \in Request, req[r].op = "sign"
  PROVE  /\ contract.status = "pending_signature"
         /\ \A q \in Request : q # r => req[q].op # "sign"
  BY DEF SignersApart, CInv, CiteFresh

\* Every step keeps the invariant.
LEMMA CStep ==
  ASSUME DraftsApart, SignersApart, CInv, [Next]_vars
  PROVE  CInv'
  <1>0. DInv'
    BY DStep DEF CInv
  <1> USE <1>0 DEF CInv
  <1>1. ASSUME NEW r \in Request, NEW t \in Terms, NEW n \in Name, SaveDraftRead(r, t, n)
        PROVE  CInv'
    <2>1. ASSUME NEW q \in Request PROVE CiteFresh(q)'
      BY <1>1
      DEF SaveDraftRead, Proceed, CiteFresh, DInv, WInv, TypeOK, RequestOK,
          AmendmentOp
    <2>2. AmendmentsCiteContract'
      BY <1>1 DEF SaveDraftRead, Proceed, AmendmentsCiteContract
    <2>3. QED
      BY <2>1, <2>2
  <1>2. ASSUME NEW r \in Request, SaveDraftWrite(r) PROVE CInv'
    <2>1. contract.status # "signed" /\ UNCHANGED amendments
      BY <1>2 DEF SaveDraftWrite, DInv, DraftFresh
    <2>2. \A i \in 1 .. Len(amendments) : amendments[i].status = "draft"
      BY <2>1 DEF AmendmentsCiteContract
    <2>3. ASSUME NEW q \in Request PROVE CiteFresh(q)'
      <3>1. req[q].op # "sign"
        BY <1>2 DEF SaveDraftWrite, DInv, DraftFresh, CiteFresh
      <3>2. QED
        BY <1>2, <2>1, <2>2, <3>1
        DEF SaveDraftWrite, Commit, Idle, CiteFresh, DInv, WInv, TypeOK,
            RequestOK, AmendmentOp
    <2>4. AmendmentsCiteContract'
      BY <2>1, <2>2 DEF AmendmentsCiteContract
    <2>5. QED
      BY <2>3, <2>4
  <1>3. ASSUME NEW r \in Request, NEW n \in Name, RequestSignatureRead(r, n) PROVE CInv'
    <2>1. ASSUME NEW q \in Request PROVE CiteFresh(q)'
      BY <1>3
      DEF RequestSignatureRead, Proceed, CiteFresh, DInv, WInv, TypeOK, RequestOK,
          AmendmentOp
    <2>2. AmendmentsCiteContract'
      BY <1>3 DEF RequestSignatureRead, Proceed, AmendmentsCiteContract
    <2>3. QED
      BY <2>1, <2>2
  <1>4. ASSUME NEW r \in Request, RequestSignatureWrite(r) PROVE CInv'
    <2>1. contract.status # "signed" /\ UNCHANGED amendments
      BY <1>4 DEF RequestSignatureWrite, DInv, DraftFresh
    <2>2. \A i \in 1 .. Len(amendments) : amendments[i].status = "draft"
      BY <2>1 DEF AmendmentsCiteContract
    <2>3. ASSUME NEW q \in Request PROVE CiteFresh(q)'
      <3>1. req[q].op # "sign"
        BY <1>4 DEF RequestSignatureWrite, DInv, DraftFresh, CiteFresh
      <3>2. QED
        BY <1>4, <2>1, <2>2, <3>1
        DEF RequestSignatureWrite, Commit, Idle, CiteFresh, DInv, WInv, TypeOK,
            RequestOK, AmendmentOp
    <2>4. AmendmentsCiteContract'
      BY <2>1, <2>2 DEF AmendmentsCiteContract
    <2>5. QED
      BY <2>3, <2>4
  <1>5. ASSUME NEW r \in Request, NEW n \in Name, SignRead(r, n) PROVE CInv'
    <2>1. ASSUME NEW q \in Request PROVE CiteFresh(q)'
      BY <1>5 DEF SignRead, Proceed, CiteFresh, DInv, WInv, TypeOK, RequestOK, AmendmentOp
    <2>2. AmendmentsCiteContract'
      BY <1>5 DEF SignRead, Proceed, AmendmentsCiteContract
    <2>3. QED
      BY <2>1, <2>2
  <1>6. ASSUME NEW r \in Request, SignWrite(r) PROVE CInv'
    <2>1. contract.status = "pending_signature" /\ UNCHANGED amendments
      BY <1>6, SignerAlone DEF SignWrite
    <2>2. ASSUME NEW q \in Request PROVE CiteFresh(q)'
      <3>1. req[r].op = "sign" /\ req' = [req EXCEPT ![r] = Idle]
        BY <1>6 DEF SignWrite, Commit
      <3>2. CASE q = r
        BY <3>1, <3>2 DEF CiteFresh, Idle, DInv, WInv, TypeOK
      <3>3. CASE q # r
        <4>1. req'[q] = req[q] /\ req[q].op # "sign"
          BY <3>1, <3>3, SignerAlone DEF DInv, WInv, TypeOK
        <4>2. req[q].op = "signAmendment" => amendments[req[q].doc].status = "draft"
          BY <2>1 DEF AmendmentsCiteContract, DInv, WInv, RequestOK, AmendmentOp
        <4>3. QED
          BY <2>1, <4>1, <4>2 DEF CiteFresh
      <3>4. QED
        BY <3>2, <3>3
    <2>3. AmendmentsCiteContract'
      BY <2>1 DEF AmendmentsCiteContract
    <2>4. QED
      BY <2>2, <2>3
  <1>7. ASSUME NEW r \in Request, SaveAmendmentDraftRead(r) \/ RequestClientAmendmentRead(r)
        PROVE  CInv'
    <2>1. ASSUME NEW q \in Request PROVE CiteFresh(q)'
      BY <1>7
      DEF SaveAmendmentDraftRead, RequestClientAmendmentRead, Proceed, CiteFresh,
          DInv, WInv, TypeOK, RequestOK, AmendmentOp
    <2>2. AmendmentsCiteContract'
      BY <1>7
      DEF SaveAmendmentDraftRead, RequestClientAmendmentRead, Proceed,
          AmendmentsCiteContract
    <2>3. QED
      BY <2>1, <2>2
  <1>8. ASSUME NEW r \in Request, CreateAmendmentNumber(r) PROVE CInv'
    <2>1. ASSUME NEW q \in Request PROVE CiteFresh(q)'
      BY <1>8
      DEF CreateAmendmentNumber, Proceed, CiteFresh, DInv, WInv, TypeOK,
          RequestOK, AmendmentOp
    <2>2. AmendmentsCiteContract'
      BY <1>8 DEF CreateAmendmentNumber, Proceed, AmendmentsCiteContract
    <2>3. QED
      BY <2>1, <2>2
  <1>9. ASSUME NEW r \in Request, CreateAmendmentInsert(r) PROVE CInv'
    <2>1. /\ UNCHANGED contract
          /\ Len(amendments') = Len(amendments) + 1
          /\ \A i \in 1 .. Len(amendments) : amendments'[i] = amendments[i]
          /\ amendments'[Len(amendments) + 1].status = "draft"
      BY <1>9 DEF CreateAmendmentInsert, NewAmendment, DInv, WInv, TypeOK
    <2>2. ASSUME NEW q \in Request PROVE CiteFresh(q)'
      BY <1>9, <2>1
      DEF CreateAmendmentInsert, Commit, Idle, CiteFresh, DInv, WInv, TypeOK,
          RequestOK, AmendmentOp
    <2>3. AmendmentsCiteContract'
      BY <1>9, <2>1
      DEF CreateAmendmentInsert, Commit, AmendmentsCiteContract, DInv, WInv,
          TypeOK
    <2>4. QED
      BY <2>2, <2>3
  <1>10. ASSUME NEW r \in Request, NEW a \in 1 .. Len(amendments), RequestAmendmentSignatureRead(r, a)
        PROVE  CInv'
    <2>1. ASSUME NEW q \in Request PROVE CiteFresh(q)'
      BY <1>10
      DEF RequestAmendmentSignatureRead, Proceed, CiteFresh, DInv, WInv, TypeOK,
          RequestOK, AmendmentOp
    <2>2. AmendmentsCiteContract'
      BY <1>10 DEF RequestAmendmentSignatureRead, Proceed, AmendmentsCiteContract
    <2>3. QED
      BY <2>1, <2>2
  <1>11. ASSUME NEW r \in Request, NEW a \in 1 .. Len(amendments), SignAmendmentRead(r, a)
        PROVE  CInv'
    <2>1. ASSUME NEW q \in Request PROVE CiteFresh(q)'
      BY <1>11
      DEF SignAmendmentRead, Proceed, CiteFresh, AmendmentsCiteContract, DInv,
          WInv, TypeOK, RequestOK, AmendmentOp
    <2>2. AmendmentsCiteContract'
      BY <1>11 DEF SignAmendmentRead, Proceed, AmendmentsCiteContract
    <2>3. QED
      BY <2>1, <2>2
  <1>12. ASSUME NEW r \in Request, RequestAmendmentSignatureBuild(r) PROVE CInv'
    <2>1. ASSUME NEW q \in Request PROVE CiteFresh(q)'
      BY <1>12
      DEF RequestAmendmentSignatureBuild, Proceed, CiteFresh, DInv, WInv, TypeOK,
          RequestOK, AmendmentOp
    <2>2. AmendmentsCiteContract'
      BY <1>12 DEF RequestAmendmentSignatureBuild, Proceed, AmendmentsCiteContract
    <2>3. QED
      BY <2>1, <2>2
  <1>13. ASSUME NEW r \in Request, RequestAmendmentSignatureWrite(r) PROVE CInv'
    <2>1. /\ contract.status = "signed" /\ UNCHANGED contract
          /\ req[r].doc \in 1 .. Len(amendments)
          /\ req[r].text = contract.snapshot
      BY <1>13
      DEF RequestAmendmentSignatureWrite, CiteFresh, AmendmentsCiteContract, DInv,
          WInv, RequestOK, AmendmentOp
    <2>2. /\ Len(amendments') = Len(amendments)
          /\ \A i \in 1 .. Len(amendments) : i # req[r].doc => amendments'[i] = amendments[i]
      BY <1>13, <2>1 DEF RequestAmendmentSignatureWrite, DInv, WInv, TypeOK
    <2>3. amendments[req[r].doc] \in AmendmentRow
      BY <2>1, ElementOfSeq DEF DInv, WInv, TypeOK
    <2>4. /\ amendments'[req[r].doc].status = "pending_signature"
          /\ amendments'[req[r].doc].snapshot = contract.snapshot
      BY <1>13, <2>1, <2>3
      DEF RequestAmendmentSignatureWrite, CiteFresh, AmendmentRow, DInv, WInv,
          TypeOK
    <2>5. ASSUME NEW q \in Request PROVE CiteFresh(q)'
      <3>1. req[q].op = "signAmendment" => amendments'[req[q].doc].status # "draft"
        BY <2>2, <2>4 DEF CiteFresh, DInv, WInv, RequestOK, AmendmentOp
      <3>2. QED
        BY <1>13, <2>1, <3>1
        DEF RequestAmendmentSignatureWrite, Commit, Idle, CiteFresh, DInv, WInv,
            TypeOK
    <2>6. AmendmentsCiteContract'
      BY <1>13, <2>1, <2>2, <2>4
      DEF RequestAmendmentSignatureWrite, Commit, AmendmentsCiteContract
    <2>7. QED
      BY <2>5, <2>6
  <1>14. ASSUME NEW r \in Request, SignAmendmentWrite(r) PROVE CInv'
    <2>1. /\ contract.status = "signed" /\ UNCHANGED contract
          /\ req[r].doc \in 1 .. Len(amendments)
          /\ req[r].text = contract.snapshot
      BY <1>14
      DEF SignAmendmentWrite, CiteFresh, AmendmentsCiteContract, DInv, WInv,
          RequestOK, AmendmentOp
    <2>2. /\ Len(amendments') = Len(amendments)
          /\ \A i \in 1 .. Len(amendments) : i # req[r].doc => amendments'[i] = amendments[i]
      BY <1>14, <2>1 DEF SignAmendmentWrite, DInv, WInv, TypeOK
    <2>3. amendments[req[r].doc] \in AmendmentRow
      BY <2>1, ElementOfSeq DEF DInv, WInv, TypeOK
    <2>4. /\ amendments'[req[r].doc].status = "signed"
          /\ amendments'[req[r].doc].snapshot = contract.snapshot
      <3>1. amendments[req[r].doc].snapshot = contract.snapshot
        BY <1>14, <2>1 DEF SignAmendmentWrite, CiteFresh, AmendmentsCiteContract
      <3>2. QED
        BY <1>14, <2>1, <2>3, <3>1
        DEF SignAmendmentWrite, AmendmentRow, DInv, WInv, TypeOK
    <2>5. ASSUME NEW q \in Request PROVE CiteFresh(q)'
      <3>1. req[q].op = "signAmendment" => amendments'[req[q].doc].status # "draft"
        BY <2>2, <2>4 DEF CiteFresh, DInv, WInv, RequestOK, AmendmentOp
      <3>2. QED
        BY <1>14, <2>1, <3>1
        DEF SignAmendmentWrite, Commit, Idle, CiteFresh, DInv, WInv, TypeOK
    <2>6. AmendmentsCiteContract'
      BY <1>14, <2>1, <2>2, <2>4 DEF SignAmendmentWrite, Commit, AmendmentsCiteContract
    <2>7. QED
      BY <2>5, <2>6
  <1>15. ASSUME NEW r \in Request, Fail(r) PROVE CInv'
    <2>1. ASSUME NEW q \in Request PROVE CiteFresh(q)'
      BY <1>15 DEF Fail, Idle, CiteFresh, DInv, WInv, TypeOK, RequestOK, AmendmentOp
    <2>2. AmendmentsCiteContract'
      BY <1>15 DEF Fail, Idle, AmendmentsCiteContract
    <2>3. QED
      BY <2>1, <2>2
  <1>16. CASE UNCHANGED vars
    BY <1>16 DEF vars, CiteFresh, AmendmentsCiteContract
  <1>17. QED
    BY <1>1, <1>2, <1>3, <1>4, <1>5, <1>6, <1>7, <1>8, <1>9, <1>10, <1>11, <1>12,
       <1>13, <1>14, <1>15, <1>16,
       Zenon DEF Next

\* The invariant of apart drafts and apart signatures.
LEMMA CAlways == Spec /\ []DraftsApart /\ []SignersApart => []CInv
  <1>1. CInv /\ DraftsApart /\ SignersApart /\ [Next]_vars => CInv'
    BY CStep
  <1>2. QED
    BY <1>1, CInit, PTL DEF Spec

\* Whatever requests on amendments overlap: while drafts and signatures of the
\* contract are apart, an amendment sent for signature or signed rests on a
\* signed contract, cites its text, and is audited with it.
THEOREM AmendmentsCiteApart ==
  Spec /\ []DraftsApart /\ []SignersApart => []AmendmentsCiteContract
  <1>1. CInv => AmendmentsCiteContract
    BY DEF CInv
  <1>2. QED
    BY <1>1, CAlways, PTL

-----------------------------------------------------------------------------
(* What is signed never changes, under AmendersApart too.                  *)

\* The invariant holds before any request.
LEMMA AInit == Init => AInv
  BY CInit DEF Init, AInv, AmendFresh, Idle

\* Every step keeps the invariant.
LEMMA AStep ==
  ASSUME DraftsApart, SignersApart, AmendersApart, AInv, [Next]_vars
  PROVE  AInv'
  <1>0. CInv'
    BY CStep DEF AInv
  <1> USE <1>0 DEF AInv
  <1>1. ASSUME NEW r \in Request, NEW t \in Terms, NEW n \in Name, SaveDraftRead(r, t, n)
        PROVE  AInv'
    BY <1>1
    DEF SaveDraftRead, Proceed, AmendFresh, CInv, DInv, WInv, TypeOK, RequestOK,
        AmendmentOp
  <1>2. ASSUME NEW r \in Request, SaveDraftWrite(r) PROVE AInv'
    BY <1>2
    DEF SaveDraftWrite, Commit, Idle, AmendFresh, CInv, DInv, WInv, TypeOK,
        RequestOK, AmendmentOp
  <1>3. ASSUME NEW r \in Request, NEW n \in Name, RequestSignatureRead(r, n) PROVE AInv'
    BY <1>3
    DEF RequestSignatureRead, Proceed, AmendFresh, CInv, DInv, WInv, TypeOK,
        RequestOK, AmendmentOp
  <1>4. ASSUME NEW r \in Request, RequestSignatureWrite(r) PROVE AInv'
    BY <1>4
    DEF RequestSignatureWrite, Commit, Idle, AmendFresh, CInv, DInv, WInv, TypeOK,
        RequestOK, AmendmentOp
  <1>5. ASSUME NEW r \in Request, NEW n \in Name, SignRead(r, n) PROVE AInv'
    BY <1>5
    DEF SignRead, Proceed, AmendFresh, CInv, DInv, WInv, TypeOK, RequestOK,
        AmendmentOp
  <1>6. ASSUME NEW r \in Request, SignWrite(r) PROVE AInv'
    BY <1>6
    DEF SignWrite, Commit, Idle, AmendFresh, CInv, DInv, WInv, TypeOK, RequestOK,
        AmendmentOp
  <1>7. ASSUME NEW r \in Request, SaveAmendmentDraftRead(r) \/ RequestClientAmendmentRead(r)
        PROVE  AInv'
    BY <1>7
    DEF SaveAmendmentDraftRead, RequestClientAmendmentRead, Proceed, AmendFresh,
        CInv, DInv, WInv, TypeOK, RequestOK, AmendmentOp
  <1>8. ASSUME NEW r \in Request, CreateAmendmentNumber(r) PROVE AInv'
    BY <1>8
    DEF CreateAmendmentNumber, Proceed, AmendFresh, CInv, DInv, WInv, TypeOK,
        RequestOK, AmendmentOp
  <1>9. ASSUME NEW r \in Request, CreateAmendmentInsert(r) PROVE AInv'
    <2>1. \A i \in 1 .. Len(amendments) : amendments'[i] = amendments[i]
      BY <1>9 DEF CreateAmendmentInsert, CInv, DInv, WInv, TypeOK
    <2>2. \A q \in Request : AmendFresh(q)'
      BY <1>9, <2>1
      DEF CreateAmendmentInsert, Commit, Idle, AmendFresh, CInv, DInv, WInv,
          TypeOK, RequestOK, AmendmentOp
    <2>3. QED
      BY <2>2
  <1>10. ASSUME NEW r \in Request, NEW a \in 1 .. Len(amendments), RequestAmendmentSignatureRead(r, a)
        PROVE  AInv'
    BY <1>10
    DEF RequestAmendmentSignatureRead, Proceed, AmendFresh, CInv, DInv, WInv,
        TypeOK, RequestOK, AmendmentOp
  <1>11. ASSUME NEW r \in Request, NEW a \in 1 .. Len(amendments), SignAmendmentRead(r, a)
        PROVE  AInv'
    BY <1>11
    DEF SignAmendmentRead, Proceed, AmendFresh, CInv, DInv, WInv, TypeOK, RequestOK,
        AmendmentOp
  <1>12. ASSUME NEW r \in Request, RequestAmendmentSignatureBuild(r) PROVE AInv'
    BY <1>12
    DEF RequestAmendmentSignatureBuild, Proceed, AmendFresh, CInv, DInv, WInv,
        TypeOK, RequestOK, AmendmentOp
  <1>13. ASSUME NEW r \in Request, RequestAmendmentSignatureWrite(r) PROVE AInv'
    <2>1. /\ req[r].doc \in 1 .. Len(amendments)
          /\ \A i \in 1 .. Len(amendments) : i # req[r].doc => amendments'[i] = amendments[i]
          /\ req' = [req EXCEPT ![r] = Idle]
      BY <1>13
      DEF RequestAmendmentSignatureWrite, Commit, CInv, DInv, WInv, TypeOK,
          RequestOK, AmendmentOp
    <2>2. ASSUME NEW q \in Request, q # r, req[q].op \in AmendmentOp, req[q].doc = req[r].doc
          PROVE  req[q].op # req[r].op
      BY <1>13, <2>2 DEF RequestAmendmentSignatureWrite, AmendersApart
    <2>3. ASSUME NEW q \in Request PROVE AmendFresh(q)'
      BY <1>13, <2>1, <2>2
      DEF RequestAmendmentSignatureWrite, Idle, AmendFresh, CInv, DInv, WInv,
          TypeOK, RequestOK, AmendmentOp
    <2>4. QED
      BY <2>3
  <1>14. ASSUME NEW r \in Request, SignAmendmentWrite(r) PROVE AInv'
    <2>1. /\ req[r].doc \in 1 .. Len(amendments)
          /\ \A i \in 1 .. Len(amendments) : i # req[r].doc => amendments'[i] = amendments[i]
          /\ req' = [req EXCEPT ![r] = Idle]
      BY <1>14
      DEF SignAmendmentWrite, Commit, CInv, DInv, WInv, TypeOK, RequestOK,
          AmendmentOp
    <2>2. ASSUME NEW q \in Request, q # r, req[q].op \in AmendmentOp, req[q].doc = req[r].doc
          PROVE  req[q].op # req[r].op
      BY <1>14, <2>2 DEF SignAmendmentWrite, AmendersApart
    <2>3. ASSUME NEW q \in Request PROVE AmendFresh(q)'
      BY <1>14, <2>1, <2>2
      DEF SignAmendmentWrite, Idle, AmendFresh, CInv, DInv, WInv, TypeOK,
          RequestOK, AmendmentOp
    <2>4. QED
      BY <2>3
  <1>15. ASSUME NEW r \in Request, Fail(r) PROVE AInv'
    BY <1>15 DEF Fail, Idle, AmendFresh, CInv, DInv, WInv, TypeOK, RequestOK, AmendmentOp
  <1>16. CASE UNCHANGED vars
    BY <1>16 DEF vars, AmendFresh
  <1>17. QED
    BY <1>1, <1>2, <1>3, <1>4, <1>5, <1>6, <1>7, <1>8, <1>9, <1>10, <1>11, <1>12,
       <1>13, <1>14, <1>15, <1>16,
       Zenon DEF Next

\* A single step leaves what is signed alone.
LEMMA SignedStep ==
  ASSUME AInv, [Next]_vars
  PROVE  SignedStays
  <1> USE DEF AInv, CInv, DInv, WInv, SignedStays
  <1>1. ASSUME contract.status = "signed" PROVE contract' = contract
    BY <1>1
    DEF Next, DraftFresh, CiteFresh, SaveDraftRead, SaveDraftWrite, RequestSignatureRead,
        RequestSignatureWrite, SignRead, SignWrite, SaveAmendmentDraftRead, RequestClientAmendmentRead,
        CreateAmendmentNumber, CreateAmendmentInsert, RequestAmendmentSignatureRead,
        RequestAmendmentSignatureBuild, RequestAmendmentSignatureWrite,
        SignAmendmentRead, SignAmendmentWrite, Fail, Proceed, Commit, vars
  <1>2. ASSUME NEW i \in 1 .. Len(amendments), amendments[i].status = "signed"
        PROVE  amendments'[i] = amendments[i]
    <2>1. ASSUME NEW r \in Request, CreateAmendmentInsert(r)
          PROVE  amendments'[i] = amendments[i]
      BY <2>1 DEF CreateAmendmentInsert, TypeOK
    <2>2. ASSUME NEW r \in Request, RequestAmendmentSignatureWrite(r)
          PROVE  amendments'[i] = amendments[i]
      BY <1>2, <2>2 DEF RequestAmendmentSignatureWrite, AmendFresh, TypeOK
    <2>3. ASSUME NEW r \in Request, SignAmendmentWrite(r)
          PROVE  amendments'[i] = amendments[i]
      BY <1>2, <2>3 DEF SignAmendmentWrite, AmendFresh, TypeOK
    <2>4. \/ UNCHANGED amendments
          \/ \E r \in Request : \/ CreateAmendmentInsert(r)
                                \/ RequestAmendmentSignatureWrite(r)
                                \/ SignAmendmentWrite(r)
      BY DEF Next, SaveDraftRead, SaveDraftWrite, RequestSignatureRead,
             RequestSignatureWrite, SignRead, SignWrite, SaveAmendmentDraftRead, RequestClientAmendmentRead,
             CreateAmendmentNumber, RequestAmendmentSignatureRead,
             RequestAmendmentSignatureBuild, SignAmendmentRead, Fail, Proceed, vars
    <2>5. QED
      BY <2>1, <2>2, <2>3, <2>4
  <1>3. QED
    BY <1>1, <1>2

\* While drafts, signatures of the contract and requests on one amendment are
\* apart, nothing that is signed ever changes, although saveDraft,
\* requestSignature, sign and their counterparts for amendments check the
\* status before their transactions and write unconditionally.
THEOREM SignedImmutableApart ==
  Spec /\ []DraftsApart /\ []SignersApart /\ []AmendersApart => SignedImmutable
  <1>1. AInv /\ DraftsApart /\ SignersApart /\ AmendersApart /\ [Next]_vars => AInv'
    BY AStep
  <1>2. AInv /\ [Next]_vars => [SignedStays]_vars
    BY SignedStep
  <1>3. QED
    BY <1>1, <1>2, AInit, PTL DEF Spec, SignedImmutable

-----------------------------------------------------------------------------
(* One request of each kind at a time.                                     *)

\* Then the requests are apart in all three ways.
LEMMA AloneApart ==
  ASSUME OneAtATime PROVE WInv => DraftsApart /\ SignersApart /\ AmendersApart
  BY OneAtATime
  DEF OneAtATime, WInv, RequestOK, AdminOp, ClientOp, DraftsApart, SignersApart, AmendersApart

\* As long as administrators' requests do not overlap one another, nor the
\* client's, what is signed is the stored text of the contract's terms and the
\* audit log has its hash.
THEOREM ContractSignedTextAudited == ASSUME OneAtATime PROVE Spec => []SignedTextAudited
  <1>1. WInv => DraftsApart
    BY OneAtATime, AloneApart
  <1>2. QED
    BY <1>1, WAlways, SignedTextAuditedApart, PTL

\* Under the same assumption every amendment sent for signature cites the text
\* of the signed contract it amends.
THEOREM ContractAmendmentsCite == ASSUME OneAtATime PROVE Spec => []AmendmentsCiteContract
  <1>1. WInv => DraftsApart /\ SignersApart
    BY OneAtATime, AloneApart
  <1>2. QED
    BY <1>1, WAlways, AmendmentsCiteApart, PTL

\* Under the same assumption nothing that is signed ever changes.
THEOREM ContractSignedImmutable == ASSUME OneAtATime PROVE Spec => SignedImmutable
  <1>1. WInv => DraftsApart /\ SignersApart /\ AmendersApart
    BY OneAtATime, AloneApart
  <1>2. QED
    BY <1>1, WAlways, SignedImmutableApart, PTL
=============================================================================
