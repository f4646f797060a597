------------------------------ MODULE Contract ------------------------------
(***************************************************************************)
(* The contract of one project and its amendments (otrosies).              *)
(*                                                                         *)
(*   src/modules/collab/contract/contract.service.ts                       *)
(*   src/modules/collab/contract/amendment.service.ts                      *)
(*   src/modules/collab/contract/contract.repository.ts                    *)
(*                                                                         *)
(* Every request first reads the rows and checks their status, and only    *)
(* then opens the transaction that writes them; the UPDATEs are not        *)
(* conditional on that status.  A request is therefore two or more steps   *)
(* (the reads, then the commit of the transaction) and other requests run  *)
(* in between.                                                             *)
(*                                                                         *)
(* What is signed is a text rendered from the terms and the name the       *)
(* project has at that moment (Render, not assumed injective: not every    *)
(* column is printed).  A text stands for its SHA-256 too.  Of the text of *)
(* an amendment only the part that can vary is kept: the hash of the       *)
(* contract it cites.                                                      *)
(***************************************************************************)
EXTENDS Integers, Sequences

CONSTANTS
  Admin,         \* requests of administrators that may be in flight at once
  Client,        \* the same for the client of the project
  Terms,         \* values of the editable columns of the contract
  Name,          \* names the project may have
  Text,          \* rendered contracts
  Render,        \* buildContractSnapshot
  MaxAmendments, \* bound: amendments of the contract
  None           \* SQL NULL

Request == Admin \cup Client

ASSUME ContractAssumption ==
  /\ Admin \cap Client = {}
  /\ Render \in [Terms -> [Name -> Text]]
  /\ None \notin Terms
  /\ None \notin Text
  /\ None \notin Client
  /\ MaxAmendments \in Nat

VARIABLES
  contract,   \* the row of project_contracts; status "none" before it exists
  amendments, \* the rows of project_contract_amendments, as inserted
  audit,      \* the entries of audit_logs: action, document, content hash
  req         \* the requests in flight with what they read

vars == <<contract, amendments, audit, req>>

Status == {"draft", "pending_signature", "signed"}
Op == {"idle", "saveDraft", "requestSignature", "sign", "numberAmendment",
       "insertAmendment", "readAmendment", "requestAmendmentSignature",
       "signAmendment"}
Main == 0   \* the document number of the contract itself
Document == 0 .. MaxAmendments

NoContract == [status |-> "none", terms |-> None, snapshot |-> None, signer |-> None]
Idle == [op |-> "idle", terms |-> None, text |-> None, seen |-> NoContract, doc |-> Main]

\* A row written before snapshots were introduced has none.
Legacy(s, t) == [status |-> s, terms |-> t, snapshot |-> None, signer |-> None]

Init ==
  /\ contract \in {NoContract} \cup {Legacy(s, t) : s \in {"draft", "pending_signature"},
                                                    t \in Terms}
  /\ amendments = <<>>
  /\ audit = {}
  /\ req = [r \in Request |-> Idle]

-----------------------------------------------------------------------------
(* Steps of requests.                                                      *)

\* The request reads, passes its checks and goes on as "op".
Proceed(r, op, terms, text, seen, doc) ==
  /\ req' = [req EXCEPT ![r] = [op |-> op, terms |-> terms, text |-> text,
                                seen |-> seen, doc |-> doc]]
  /\ UNCHANGED <<contract, amendments, audit>>

\* The request's transaction commits, with its audit entry.
Commit(r, action, doc, hash) ==
  /\ audit' = audit \cup {[action |-> action, doc |-> doc, hash |-> hash]}
  /\ req' = [req EXCEPT ![r] = Idle]

\* A statement fails or the process dies: nothing was committed.
Fail(r) ==
  /\ req[r].op # "idle"
  /\ req' = [req EXCEPT ![r] = Idle]
  /\ UNCHANGED <<contract, amendments, audit>>

-----------------------------------------------------------------------------
(* contract.service.ts                                                     *)

\* Faulty variant: saveDraft checks nothing.
SaveDraftUnchecked(r, t, n) ==
  /\ r \in Admin /\ req[r].op = "idle"
  /\ Proceed(r, "saveDraft", t, Render[t][n], contract, Main)

\* saveDraft: requireAdmin, getByProjectId, the two status checks, the text.
SaveDraftRead(r, t, n) ==
  /\ r \in Admin /\ req[r].op = "idle"
  /\ contract.status \notin {"signed", "pending_signature"}
  /\ Proceed(r, "saveDraft", t, Render[t][n], contract, Main)

\* upsertDraft writes the snapshot and resets everything about a signature.
SaveDraftWrite(r) ==
  /\ req[r].op = "saveDraft"
  /\ contract' = [status |-> "draft", terms |-> req[r].terms,
                  snapshot |-> req[r].text, signer |-> None]
  /\ Commit(r, "draft_saved", Main, req[r].text)
  /\ UNCHANGED amendments

\* requestSignature renders the draft it read.
RequestSignatureRead(r, n) ==
  /\ r \in Admin /\ req[r].op = "idle"
  /\ contract.status = "draft"
  /\ Proceed(r, "requestSignature", None, Render[contract.terms][n], contract, Main)

RequestSignatureWrite(r) ==
  /\ req[r].op = "requestSignature"
  /\ contract' = [contract EXCEPT !.status = "pending_signature",
                                  !.snapshot = req[r].text]
  /\ Commit(r, "signature_requested", Main, req[r].text)
  /\ UNCHANGED amendments

\* Faulty variant: whoever has access to the project may sign.
SignReadAnyone(r, n) ==
  /\ req[r].op = "idle"
  /\ contract.status = "pending_signature"
  /\ Proceed(r, "sign", None, Render[contract.terms][n], contract, Main)

\* sign: the client of the project reads the contract sent for signature and
\* signs the stored snapshot or, for a row without one, a text rendered now.
SignRead(r, n) ==
  /\ r \in Client /\ req[r].op = "idle"
  /\ contract.status = "pending_signature"
  /\ Proceed(r, "sign", None,
             IF contract.snapshot = None THEN Render[contract.terms][n] ELSE contract.snapshot,
             contract, Main)

\* Faulty variant: rows without a snapshot are signed without one.
SignWriteNoSnapshot(r) ==
  /\ req[r].op = "sign"
  /\ contract' = [contract EXCEPT !.status = "signed", !.signer = r]
  /\ Commit(r, "signed", Main, req[r].text)
  /\ UNCHANGED amendments

\* The UPDATE leaves a stored snapshot alone; the audit entry has the hash of
\* the text the request read.
SignWrite(r) ==
  /\ req[r].op = "sign"
  /\ contract' = [contract EXCEPT
                    !.status = "signed",
                    !.signer = r,
                    !.snapshot = IF req[r].seen.snapshot = None THEN req[r].text ELSE @]
  /\ Commit(r, "signed", Main, req[r].text)
  /\ UNCHANGED amendments

-----------------------------------------------------------------------------
(* amendment.service.ts                                                    *)

\* saveAmendmentDraft: an administrator, and the contract must be signed.
SaveAmendmentDraftRead(r) ==
  /\ r \in Admin /\ req[r].op = "idle"
  /\ contract.status = "signed"
  /\ Proceed(r, "numberAmendment", None, None, contract, Main)

\* requestClientAmendment: the same for any member of the project.
RequestClientAmendmentRead(r) ==
  /\ req[r].op = "idle"
  /\ contract.status = "signed"
  /\ Proceed(r, "numberAmendment", None, None, contract, Main)

\* getNextAmendmentNumber, the first statement of the transaction.
CreateAmendmentNumber(r) ==
  /\ req[r].op = "numberAmendment"
  /\ Len(amendments) < MaxAmendments
  /\ LET numbers == {amendments[i].number : i \in 1 .. Len(amendments)} IN
       \E n \in 1 .. MaxAmendments :
         /\ n - 1 \in numbers \cup {0}
         /\ \A m \in numbers : m < n
         /\ Proceed(r, "insertAmendment", None, None, req[r].seen, n)

NewAmendment(n) ==
  [number |-> n, status |-> "draft", snapshot |-> None, signer |-> None]

\* Faulty variant: no unique index on (contract_id, amendment_number).
CreateAmendmentUnindexed(r) ==
  /\ req[r].op = "insertAmendment"
  /\ amendments' = Append(amendments, NewAmendment(req[r].doc))
  /\ Commit(r, "amendment_saved", req[r].doc, None)
  /\ UNCHANGED contract

\* The INSERT; when another request took the number, the unique index rejects
\* it and the request fails.
CreateAmendmentInsert(r) ==
  /\ req[r].op = "insertAmendment"
  /\ \A i \in 1 .. Len(amendments) : amendments[i].number # req[r].doc
  /\ amendments' = Append(amendments, NewAmendment(req[r].doc))
  /\ Commit(r, "amendment_saved", req[r].doc, None)
  /\ UNCHANGED contract

\* requestAmendmentSignature: the contract is read first ...
RequestAmendmentSignatureRead(r, a) ==
  /\ r \in Admin /\ req[r].op = "idle"
  /\ contract.status = "signed"
  /\ Proceed(r, "readAmendment", None, None, contract, a)

\* ... then the amendment, and the snapshot is built: it cites the hash of the
\* contract.
RequestAmendmentSignatureBuild(r) ==
  /\ req[r].op = "readAmendment"
  /\ amendments[req[r].doc].status = "draft"
  /\ Proceed(r, "requestAmendmentSignature", None, req[r].seen.snapshot, req[r].seen,
             req[r].doc)

\* Faulty variant: the status changes, the snapshot is not stored.
RequestAmendmentSignatureNoSnapshot(r) ==
  /\ req[r].op = "requestAmendmentSignature"
  /\ amendments' = [amendments EXCEPT ![req[r].doc].status = "pending_signature"]
  /\ Commit(r, "amendment_signature_requested", req[r].doc, req[r].text)
  /\ UNCHANGED contract

RequestAmendmentSignatureWrite(r) ==
  /\ req[r].op = "requestAmendmentSignature"
  /\ amendments' = [amendments EXCEPT ![req[r].doc] =
                      [@ EXCEPT !.status = "pending_signature", !.snapshot = req[r].text]]
  /\ Commit(r, "amendment_signature_requested", req[r].doc, req[r].text)
  /\ UNCHANGED contract

\* signAmendment reads the amendment only.
SignAmendmentRead(r, a) ==
  /\ r \in Client /\ req[r].op = "idle"
  /\ amendments[a].status = "pending_signature"
  /\ amendments[a].snapshot # None
  /\ Proceed(r, "signAmendment", None, amendments[a].snapshot, NoContract, a)

SignAmendmentWrite(r) ==
  /\ req[r].op = "signAmendment"
  /\ amendments' = [amendments EXCEPT ![req[r].doc] =
                      [@ EXCEPT !.status = "signed", !.signer = r]]
  /\ Commit(r, "amendment_signed", req[r].doc, req[r].text)
  /\ UNCHANGED contract

-----------------------------------------------------------------------------

Next ==
  \E r \in Request :
    \/ \E t \in Terms, n \in Name : SaveDraftRead(r, t, n)
    \/ SaveDraftWrite(r)
    \/ \E n \in Name : RequestSignatureRead(r, n)
    \/ RequestSignatureWrite(r)
    \/ \E n \in Name : SignRead(r, n)
    \/ SignWrite(r)
    \/ SaveAmendmentDraftRead(r)
    \/ RequestClientAmendmentRead(r)
    \/ CreateAmendmentNumber(r)
    \/ CreateAmendmentInsert(r)
    \/ \E a \in 1 .. Len(amendments) :
         RequestAmendmentSignatureRead(r, a) \/ SignAmendmentRead(r, a)
    \/ RequestAmendmentSignatureBuild(r)
    \/ RequestAmendmentSignatureWrite(r)
    \/ SignAmendmentWrite(r)
    \/ Fail(r)

Spec == Init /\ [][Next]_vars

-----------------------------------------------------------------------------
(* Properties.                                                             *)

Row == [status : Status, terms : Terms, snapshot : Text \cup {None},
        signer : Client \cup {None}]

AmendmentRow == [number : Document, status : Status, snapshot : Text \cup {None},
                 signer : Client \cup {None}]

\* Every variable has its type.
TypeOK ==
  /\ contract \in Row \cup {NoContract}
  /\ amendments \in Seq(AmendmentRow)
  /\ \A x \in audit : x.doc \in Document /\ x.hash \in Text \cup {None}
  /\ req \in [Request -> [op : Op, terms : Terms \cup {None}, text : Text \cup {None},
                          seen : Row \cup {NoContract}, doc : Document]]

\* Whatever requests overlap, amendments are numbered 1, 2, 3 ... in the order
\* of their insertion: no number twice, none left out.
Numbered == \A i \in 1 .. Len(amendments) : amendments[i].number = i

\* SECURITY.md: "ninguna edicion posterior es permitida sobre el contrato
\* firmado".  Nothing about a signed contract or amendment - text, status,
\* signer - ever changes again.
SignedStays ==
  /\ contract.status = "signed" => contract' = contract
  /\ \A i \in 1 .. Len(amendments) :
       amendments[i].status = "signed" => amendments'[i] = amendments[i]

\* Stated of every step of the requests.
SignedImmutable == [][SignedStays]_vars

TextsOf(t) == {Render[t][n] : n \in Name}

\* schema.ts: the snapshot stored when the signature is requested is the one
\* that is signed and audited.  A signed contract carries a text of its own
\* terms and a signer, and the audit log holds the signature of that text.
SignedTextAudited ==
  contract.status = "signed" =>
    /\ contract.snapshot \in TextsOf(contract.terms)
    /\ contract.signer \in Client
    /\ [action |-> "signed", doc |-> Main, hash |-> contract.snapshot] \in audit

\* An amendment sent for signature or signed rests on a signed contract, cites
\* the text the contract has, and its signature is audited with that text.
AmendmentsCiteContract ==
  \A i \in 1 .. Len(amendments) :
    amendments[i].status # "draft" =>
      /\ contract.status = "signed"
      /\ amendments[i].snapshot = contract.snapshot
      /\ amendments[i].status = "signed" =>
           [action |-> "amendment_signed", doc |-> i,
            hash |-> contract.snapshot] \in audit
=============================================================================
