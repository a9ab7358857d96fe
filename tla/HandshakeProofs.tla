-------------------------- MODULE HandshakeProofs --------------------------
(***************************************************************************)
(* Proofs about Handshake, for any number of nodes, connections, options   *)
(* and passwords.                                                          *)
(*                                                                         *)
(* Agreement is not inductive: that the other end holds the same hellos is *)
(* known from its confirmation only, and that was written before this end  *)
(* read it.  The inductive invariant therefore speaks of every message     *)
(* ever written: who wrote it, and that what it was made from is still     *)
(* what that end holds.                                                    *)
(*                                                                         *)
(* What is about the bytes of a connection without a relay needs a second  *)
(* invariant, StreamInv: which messages lie between its two ends, from the *)
(* places of the two handlers.                                             *)
(***************************************************************************)
EXTENDS Handshake, TLAPS

\* An end that has written its metadata.
HasWritten(f) == pc[f] # "start" /\ wire[f] = Meta(f)

\* An end that has written its confirmation.
HasConfirmed(f) ==
    /\ HasWritten(f)
    /\ pc[f] # "meta"
    /\ node[f] \notin Legacy
    /\ got[f] \in MetaType
    /\ got[f].key # node[f]

\* The metadata goes out before anything is read.
Written(e) == pc[e] \notin {"start", "aborted"} => HasWritten(e)

\* A legacy node takes no part in confirmations.
LegacyPlain(e) == node[e] \in Legacy => pc[e] \in {"start", "up", "aborted"}

\* Who got past the metadata has somebody else's.
Accepted(e) ==
    pc[e] \in {"confirm", "await", "verify", "up"} /\ node[e] \notin Legacy
        => /\ got[e] \in MetaType /\ got[e].key # node[e]
           /\ option[e].secure => got[e].confirm

\* Who got past the confirmation has read one that fits.
Backed(e) ==
    pc[e] \in {"verify", "up"} /\ node[e] \notin Legacy /\ got[e].confirm
        => \E m \in sent : DecodeConfirmation(e, m)

EndInv(e) == Written(e) /\ LegacyPlain(e) /\ Accepted(e) /\ Backed(e)

\* Every message has an author, who still holds what it was made from.
Authored ==
    \A m \in sent : \E f \in Ends :
        \/ HasWritten(f) /\ m = Meta(f)
        \/ HasConfirmed(f) /\ m = Confirmation(f)

HandshakeInv == TypeOK /\ Authored /\ Vouched /\ \A e \in Ends : EndInv(e)

----------------------------------------------------------------------------
\* encode() builds well-formed metadata.
LEMMA MetaTyped ==
    ASSUME TypeOK, NEW e \in Ends
    PROVE  Meta(e) \in MetaType /\ Meta(e).key = node[e] /\ Meta(e).nonce = e
               /\ Meta(e).kind = "meta"
BY OptionsAssumption DEF TypeOK, Meta, MetaType, OptionType, Versions

\* A message that says "meta" is well-formed metadata.
LEMMA SentMeta ==
    ASSUME TypeOK, Authored, NEW m \in sent, m.kind = "meta"
    PROVE  m \in MetaType
<1>1. PICK f \in Ends : \/ HasWritten(f) /\ m = Meta(f)
                        \/ HasConfirmed(f) /\ m = Confirmation(f)
  BY DEF Authored
<1>2. Confirmation(f).kind = "conf"
  BY DEF Confirmation
<1>3. m = Meta(f)
  BY <1>1, <1>2
<1> QED
  BY <1>3, MetaTyped

\* What a relay passes on is a message as it was written, or a hello of the same
\* key and password that announces nothing.
LEMMA Passed ==
    ASSUME TypeOK, Authored, NEW m \in Passable, m.kind = "meta"
    PROVE  /\ m \in MetaType
           /\ \E n \in sent :
                /\ n.kind = "meta" /\ n.key = m.key /\ n.password = m.password
                /\ m.confirm => n = m
<1>1. CASE m \in sent
  BY <1>1, SentMeta
<1>2. CASE m \notin sent
  <2>1. PICK n \in sent : n.kind = "meta" /\ m \in Stripped(n)
    BY <1>2 DEF Passable
  <2>2. n \in MetaType
    BY <2>1, SentMeta
  <2>3. PICK v \in Versions : m = [n EXCEPT !.confirm = FALSE, !.version = v]
    BY <2>1 DEF Stripped
  <2>4. m \in MetaType /\ m.key = n.key /\ m.password = n.password /\ ~m.confirm
    BY <2>2, <2>3 DEF MetaType
  <2> QED
    BY <2>1, <2>4
<1> QED
  BY <1>1, <1>2

\* A relay cannot make up a confirmation.
LEMMA PassedConfirmation ==
    ASSUME TypeOK, Authored, NEW m \in Passable, m.kind = "conf"
    PROVE  m \in sent
<1> SUFFICES ASSUME m \notin sent
             PROVE  FALSE
  OBVIOUS
<1>1. PICK n \in sent : n.kind = "meta" /\ m \in Stripped(n)
  BY DEF Passable
<1>2. PICK v \in Versions : m = [n EXCEPT !.confirm = FALSE, !.version = v]
  BY <1>1 DEF Stripped
<1>3. m.kind = "meta"
  BY <1>1, <1>2, SentMeta DEF MetaType
<1> QED
  BY <1>3

\* An end that finished with a confirmation and the author of that confirmation
\* hold the same two hellos.
LEMMA Matching ==
    ASSUME HandshakeInv, NEW e \in Ends, Confirmed(e) \/ Secured(e)
    PROVE  \E f \in Ends \ {e} :
               /\ node[f] = got[e].key /\ wire[f] = got[e] /\ got[f] = wire[e]
               /\ wire[f] = Meta(f) /\ wire[e] = Meta(e)
<1> USE DEF HandshakeInv, EndInv
<1>1. PICK m \in sent : DecodeConfirmation(e, m)
  BY DEF Backed, Confirmed, Secured, Accepted
<1>2. PICK f \in Ends : \/ HasWritten(f) /\ m = Meta(f)
                        \/ HasConfirmed(f) /\ m = Confirmation(f)
  BY DEF Authored
<1>3. HasConfirmed(f) /\ m = Confirmation(f)
  BY <1>1, <1>2, MetaTyped DEF DecodeConfirmation
<1>4. node[f] = got[e].key /\ {wire[f], got[f]} = {wire[e], got[e]}
  BY <1>1, <1>3 DEF DecodeConfirmation, Confirmation, Transcript
<1>5. wire[f] = Meta(f) /\ wire[e] = Meta(e)
  BY <1>3 DEF HasConfirmed, HasWritten, Written, Confirmed, Secured
<1>6. wire[f].key = node[f] /\ wire[e].key = node[e]
  BY <1>5, MetaTyped
<1>7. got[e].key # node[e] /\ got[f].key # node[f]
  BY <1>3 DEF Accepted, Confirmed, Secured, HasConfirmed
<1>8. wire[f] = got[e]
  BY <1>4, <1>6, <1>7
<1>9. got[f] = wire[e]
  BY <1>4, <1>6, <1>7, <1>8
<1> QED
  BY <1>4, <1>5, <1>6, <1>7, <1>8, <1>9

\* The two ends agree as soon as the invariant holds.
LEMMA InvAgrees == HandshakeInv => Agreement
BY Matching DEF Agreement

\* A nonce belongs to one end, so a hello accepted twice was accepted once.
LEMMA InvNotReplayed == HandshakeInv => NotReplayed
<1> SUFFICES ASSUME HandshakeInv, NEW e \in Ends, NEW g \in Ends,
                    Confirmed(e), Confirmed(g), got[e] = got[g]
             PROVE  e = g
  BY DEF NotReplayed
<1>1. PICK f \in Ends : wire[f] = got[e] /\ got[f] = wire[e]
                          /\ wire[f] = Meta(f) /\ wire[e] = Meta(e)
  BY Matching
<1>2. PICK h \in Ends : wire[h] = got[g] /\ got[h] = wire[g]
                          /\ wire[h] = Meta(h) /\ wire[g] = Meta(g)
  BY Matching
<1>3. \A i \in Ends : Meta(i).nonce = i
  BY DEF Meta
<1>4. f = h
  BY <1>1, <1>2, <1>3
<1> QED
  BY <1>1, <1>2, <1>3, <1>4

----------------------------------------------------------------------------
\* What handler() starts from.
LEMMA HandshakeInit == Init => HandshakeInv
BY DEF Init, HandshakeInv, EndInv, TypeOK, Labels, Written, LegacyPlain, Accepted, Authored, Backed,
         Vouched

\* What a step of an end leaves alone: the other ends, and what was sent.
Local(e) ==
    /\ UNCHANGED setup
    /\ \A f \in Ends \ {e} : pc'[f] = pc[f] /\ wire'[f] = wire[f] /\ got'[f] = got[f]
    /\ sent \subseteq sent'

\* A step that keeps what its end has written and accepted keeps the authors of
\* every message.
LEMMA AuthorsStay ==
    ASSUME HandshakeInv, NEW e \in Ends, Local(e), pc'[e] # "start",
           HasWritten(e) => wire'[e] = wire[e],
           HasConfirmed(e) => got'[e] = got[e] /\ pc'[e] # "meta"
    PROVE  \A m \in sent : \E f \in Ends :
               \/ HasWritten(f)' /\ m = Meta(f)'
               \/ HasConfirmed(f)' /\ m = Confirmation(f)'
<1> TAKE m \in sent
<1>1. PICK f \in Ends : \/ HasWritten(f) /\ m = Meta(f)
                        \/ HasConfirmed(f) /\ m = Confirmation(f)
  BY DEF HandshakeInv, Authored
<1>2. Meta(f)' = Meta(f)
  BY DEF Local, Meta, setup
<1>3. HasWritten(f) => HasWritten(f)'
  BY <1>2 DEF HasWritten, Local
<1>4. HasConfirmed(f) => HasConfirmed(f)' /\ Confirmation(f)' = Confirmation(f)
  BY <1>3 DEF HasConfirmed, HasWritten, Local, Confirmation, setup, Transcript, MetaType
<1> WITNESS f \in Ends
<1> QED
  BY <1>1, <1>2, <1>3, <1>4

\* A step that accepts nothing new keeps who vouches for what was accepted.
LEMMA VouchersStay ==
    ASSUME HandshakeInv, sent \subseteq sent', got' = got
    PROVE  Vouched'
BY DEF HandshakeInv, Vouched

\* A step that accepts a passed hello has its author vouch for it.
LEMMA VouchersGrow ==
    ASSUME HandshakeInv, sent \subseteq sent', NEW e \in Ends, NEW m \in Passable,
           m.kind = "meta", got'[e] = m, \A f \in Ends \ {e} : got'[f] = got[f]
    PROVE  Vouched'
<1> SUFFICES ASSUME NEW f \in Ends, got'[f] # None
             PROVE  \E n \in sent' :
                        /\ n.kind = "meta" /\ n.key = got'[f].key
                        /\ n.password = got'[f].password
                        /\ got'[f].confirm => n = got'[f]
  BY DEF Vouched
<1>1. CASE f = e
  <2>1. got'[f] = m
    BY <1>1
  <2>2. TypeOK /\ Authored
    BY DEF HandshakeInv
  <2>3. PICK n \in sent :
            /\ n.kind = "meta" /\ n.key = m.key /\ n.password = m.password
            /\ m.confirm => n = m
    BY <2>2, Passed
  <2> QED
    BY <2>1, <2>3
<1>2. CASE f # e
  <2>1. got'[f] = got[f]
    BY <1>2
  <2> QED
    BY <2>1 DEF HandshakeInv, Vouched
<1> QED
  BY <1>1, <1>2

\* The other ends keep their part of the invariant.
LEMMA OthersStay ==
    ASSUME HandshakeInv, NEW e \in Ends, Local(e), NEW f \in Ends \ {e}
    PROVE  EndInv(f)'
<1>1. EndInv(f)
  BY DEF HandshakeInv
<1>2. pc'[f] = pc[f] /\ wire'[f] = wire[f] /\ got'[f] = got[f] /\ UNCHANGED setup
  BY DEF Local
<1>3. Written(f)' /\ LegacyPlain(f)' /\ Accepted(f)'
  BY <1>1, <1>2 DEF EndInv, Written, LegacyPlain, Accepted, HasWritten, Meta, MetaType, setup
<1>4. \A m \in sent : DecodeConfirmation(f, m) => DecodeConfirmation(f, m)'
  BY <1>2 DEF DecodeConfirmation, Transcript, setup
<1>5. Backed(f)'
  BY <1>1, <1>2, <1>4 DEF EndInv, Backed, Local, setup
<1> QED
  BY <1>3, <1>5 DEF EndInv

----------------------------------------------------------------------------
\* One lemma for each action: writing the metadata.
LEMMA WriteMetaKeeps ==
    ASSUME HandshakeInv, NEW e \in Ends, WriteMeta(e)
    PROVE  HandshakeInv'
<1> USE DEF HandshakeInv
<1>1. Local(e) /\ pc' = [pc EXCEPT ![e] = "meta"] /\ sent' = sent \cup {Meta(e)}
      /\ wire' = [wire EXCEPT ![e] = Meta(e)] /\ got' = got /\ pc[e] = "start"
  BY DEF WriteMeta, Local, Write, Goto, TypeOK
<1>2. Meta(e)' = Meta(e) /\ Meta(e) \in MetaType
  BY <1>1, MetaTyped DEF Local, Meta, setup
<1>3. TypeOK'
  BY <1>1, <1>2 DEF TypeOK, Labels, MetaType, Local, setup
<1>4. HasWritten(e)'
  BY <1>1, <1>2 DEF HasWritten, TypeOK
<1>5. Authored'
  <2>1. \A m \in sent : \E f \in Ends :
            \/ HasWritten(f)' /\ m = Meta(f)'
            \/ HasConfirmed(f)' /\ m = Confirmation(f)'
    BY <1>1, AuthorsStay DEF HasWritten, HasConfirmed, TypeOK
  <2> QED
    BY <2>1, <1>1, <1>2, <1>4 DEF Authored
<1>6. EndInv(e)'
  <2>1. pc'[e] = "meta" /\ node'[e] \notin Legacy
    BY <1>1 DEF WriteMeta, setup, TypeOK
  <2> QED
    BY <2>1, <1>4 DEF EndInv, Written, LegacyPlain, Accepted, Backed
<1>7. Vouched'
  BY <1>1, VouchersStay
<1> QED
  BY <1>7, <1>1, <1>3, <1>5, <1>6, OthersStay

\* Accepting the metadata of somebody else, or rejecting it.
LEMMA ReadMetaKeeps ==
    ASSUME HandshakeInv, NEW e \in Ends, NEW m \in Passable, ReadMeta(e, m)
    PROVE  HandshakeInv'
<1> USE DEF HandshakeInv
<1>1. Local(e) /\ sent' = sent /\ wire' = wire /\ pc[e] = "meta" /\ node[e] \notin Legacy
      /\ UNCHANGED setup
  BY DEF ReadMeta, Local, Read, Goto, TypeOK, setup
<1>2. HasWritten(e) /\ pc'[e] # "start" => HasWritten(e)'
  BY <1>1 DEF HasWritten, Meta, setup
<1>3. HasWritten(e)
  BY <1>1 DEF EndInv, Written
<1>4. CASE Acceptable(e, m)
  <2>1. got' = [got EXCEPT ![e] = m] /\ (m.confirm => pc' = [pc EXCEPT ![e] = "confirm"])
        /\ (~m.confirm => pc' = [pc EXCEPT ![e] = "verify"])
    BY <1>4 DEF ReadMeta, Goto
  <2>2. m \in MetaType /\ m.key # node[e] /\ (option[e].secure => m.confirm)
    BY <1>4, Passed DEF Acceptable, DecodeMeta
  <2>3. got'[e] = m /\ pc'[e] \in {"confirm", "verify"} /\ (m.confirm => pc'[e] = "confirm")
    BY <2>1 DEF TypeOK
  <2>4. TypeOK'
    BY <2>1, <2>2, <1>1 DEF TypeOK, Labels, MetaType, setup
  <2>5. Authored'
    BY <2>3, <1>1, AuthorsStay DEF Authored, HasConfirmed
  <2>6. Written(e)' /\ LegacyPlain(e)' /\ Accepted(e)'
    BY <2>2, <2>3, <1>1, <1>2, <1>3 DEF Written, LegacyPlain, Accepted, setup, MetaType
  <2>7. Backed(e)'
    BY <2>3 DEF Backed
  <2>8. Vouched'
    <3>1. m.kind = "meta"
      BY <1>4 DEF Acceptable, DecodeMeta
    <3>2. \A f \in Ends \ {e} : got'[f] = got[f]
      BY <2>1 DEF TypeOK
    <3> QED
      BY <3>1, <3>2, <2>3, <1>1, VouchersGrow
  <2> QED
    BY <2>4, <2>5, <2>6, <2>7, <2>8, <1>1, OthersStay DEF EndInv
<1>5. CASE ~Acceptable(e, m)
  <2>1. got' = got /\ pc' = [pc EXCEPT ![e] = "rejected"]
    BY <1>5 DEF ReadMeta, Goto
  <2>2. pc'[e] = "rejected"
    BY <2>1 DEF TypeOK
  <2>3. TypeOK'
    BY <2>1, <1>1 DEF TypeOK, Labels, MetaType, setup
  <2>4. Authored'
    BY <2>1, <2>2, <1>1, AuthorsStay DEF Authored
  <2>5. EndInv(e)'
    BY <2>2, <1>1, <1>2, <1>3 DEF EndInv, Written, LegacyPlain, Accepted, Backed, setup
  <2>6. Vouched'
    BY <2>1, <1>1, VouchersStay
  <2> QED
    BY <2>3, <2>4, <2>5, <2>6, <1>1, OthersStay
<1> QED
  BY <1>4, <1>5

\* Writing the confirmation: what it is made from is settled.
LEMMA WriteConfirmationKeeps ==
    ASSUME HandshakeInv, NEW e \in Ends, WriteConfirmation(e)
    PROVE  HandshakeInv'
<1> USE DEF HandshakeInv
<1>1. Local(e) /\ sent' = sent \cup {Confirmation(e)} /\ wire' = wire /\ got' = got
      /\ UNCHANGED setup /\ pc[e] = "confirm" /\ pc' = [pc EXCEPT ![e] = "await"]
  BY DEF WriteConfirmation, Local, Write, Goto, TypeOK, setup
<1>2. pc'[e] = "await" /\ node[e] \notin Legacy
  BY <1>1 DEF TypeOK, EndInv, LegacyPlain
<1>3. HasConfirmed(e)' /\ Confirmation(e)' = Confirmation(e)
  BY <1>1, <1>2 DEF EndInv, Written, Accepted, HasConfirmed, HasWritten, Meta, MetaType,
                    Confirmation, Transcript, setup
<1>4. TypeOK'
  BY <1>1 DEF TypeOK, Labels, MetaType, setup
<1>5. Authored'
  <2>1. \A m \in sent : \E f \in Ends :
            \/ HasWritten(f)' /\ m = Meta(f)'
            \/ HasConfirmed(f)' /\ m = Confirmation(f)'
    BY <1>1, <1>2, AuthorsStay
  <2> QED
    BY <2>1, <1>1, <1>3 DEF Authored
<1>6. EndInv(e)'
  BY <1>1, <1>2, <1>3 DEF EndInv, Written, LegacyPlain, Accepted, Backed, HasConfirmed, setup
<1>7. Vouched'
  BY <1>1, VouchersStay
<1> QED
  BY <1>7, <1>1, <1>4, <1>5, <1>6, OthersStay

\* Reading the confirmation: who gets past it has one that fits.
LEMMA ReadConfirmationKeeps ==
    ASSUME HandshakeInv, NEW e \in Ends, NEW m \in Passable, ReadConfirmation(e, m)
    PROVE  HandshakeInv'
<1> USE DEF HandshakeInv
<1>1. Local(e) /\ sent' = sent /\ wire' = wire /\ got' = got /\ UNCHANGED setup
      /\ pc[e] = "await"
  BY DEF ReadConfirmation, Local, Read, Goto, TypeOK, setup
<1>2. \/ DecodeConfirmation(e, m) /\ pc' = [pc EXCEPT ![e] = "verify"]
      \/ pc' = [pc EXCEPT ![e] = "rejected"]
  BY DEF ReadConfirmation, Goto
<1>3. \/ DecodeConfirmation(e, m) /\ pc'[e] = "verify"
      \/ pc'[e] = "rejected"
  BY <1>2 DEF TypeOK
<1>4. node[e] \notin Legacy
  BY <1>1 DEF EndInv, LegacyPlain
<1>5. TypeOK'
  BY <1>1, <1>2 DEF TypeOK, Labels, MetaType, setup
<1>6. Authored'
  BY <1>1, <1>3, AuthorsStay DEF Authored
<1>7. Written(e)' /\ LegacyPlain(e)' /\ Accepted(e)'
  BY <1>1, <1>3, <1>4 DEF EndInv, Written, HasWritten, LegacyPlain, Accepted, Meta, MetaType,
                         setup
<1>8. Backed(e)'
  <2>1. DecodeConfirmation(e, m) => DecodeConfirmation(e, m)'
    BY <1>1 DEF DecodeConfirmation, Transcript, setup
  <2> QED
    BY <2>1, <1>1, <1>3, PassedConfirmation DEF Backed, DecodeConfirmation
<1>9. Vouched'
  BY <1>1, VouchersStay
<1> QED
  BY <1>9, <1>1, <1>5, <1>6, <1>7, <1>8, OthersStay DEF EndInv

\* The checks after the handshake proper read and change nothing else.
LEMMA VerifyKeeps ==
    ASSUME HandshakeInv, NEW e \in Ends, Verify(e)
    PROVE  HandshakeInv'
<1> USE DEF HandshakeInv
<1>1. Local(e) /\ sent' = sent /\ wire' = wire /\ got' = got /\ UNCHANGED setup
      /\ pc[e] = "verify"
  BY DEF Verify, Local, Goto, TypeOK, setup
<1>2. pc' = [pc EXCEPT ![e] = "up"] \/ pc' = [pc EXCEPT ![e] = "rejected"]
  BY DEF Verify, Goto
<1>3. pc'[e] \in {"up", "rejected"}
  BY <1>2 DEF TypeOK
<1>4. node[e] \notin Legacy
  BY <1>1 DEF EndInv, LegacyPlain
<1>5. TypeOK'
  BY <1>1, <1>2 DEF TypeOK, Labels, MetaType, setup
<1>6. Authored'
  BY <1>1, <1>3, AuthorsStay DEF Authored
<1>7. Written(e)' /\ LegacyPlain(e)' /\ Accepted(e)'
  BY <1>1, <1>3, <1>4 DEF EndInv, Written, HasWritten, LegacyPlain, Accepted, Meta, MetaType,
                         setup
<1>8. Backed(e)'
  <2>1. \A m \in sent : DecodeConfirmation(e, m) => DecodeConfirmation(e, m)'
    BY <1>1 DEF DecodeConfirmation, Transcript, setup
  <2> QED
    BY <2>1, <1>1, <1>3 DEF EndInv, Backed, setup
<1>9. Vouched'
  BY <1>1, VouchersStay
<1> QED
  BY <1>9, <1>1, <1>5, <1>6, <1>7, <1>8, OthersStay DEF EndInv

\* Closing the connection takes back nothing that was written.
LEMMA AbortKeeps ==
    ASSUME HandshakeInv, NEW e \in Ends, Abort(e)
    PROVE  HandshakeInv'
<1> USE DEF HandshakeInv
<1>1. Local(e) /\ sent' = sent /\ wire' = wire /\ got' = got /\ UNCHANGED setup
      /\ pc' = [pc EXCEPT ![e] = "aborted"]
  BY DEF Abort, Local, Goto, TypeOK, setup
<1>2. pc'[e] = "aborted"
  BY <1>1 DEF TypeOK
<1>3. TypeOK'
  BY <1>1 DEF TypeOK, Labels, MetaType, setup
<1>4. Authored'
  BY <1>1, <1>2, AuthorsStay DEF Authored
<1>5. EndInv(e)'
  BY <1>2 DEF EndInv, Written, LegacyPlain, Accepted, Backed
<1>6. Vouched'
  BY <1>1, VouchersStay
<1> QED
  BY <1>6, <1>1, <1>3, <1>4, <1>5, OthersStay

\* A legacy node answers with its metadata and is done.
LEMMA LegacyAnswerKeeps ==
    ASSUME HandshakeInv, NEW e \in Ends, NEW m \in Passable, LegacyAnswer(e, m)
    PROVE  HandshakeInv'
<1> USE DEF HandshakeInv
<1>1. Local(e) /\ sent' = sent \cup {Meta(e)} /\ wire' = [wire EXCEPT ![e] = Meta(e)]
      /\ got' = [got EXCEPT ![e] = m] /\ pc' = [pc EXCEPT ![e] = "up"] /\ UNCHANGED setup
      /\ pc[e] = "start" /\ node[e] \in Legacy /\ m.kind = "meta"
  BY DEF LegacyAnswer, Local, Goto, TypeOK, setup
<1>2. m \in MetaType /\ Meta(e) \in MetaType /\ Meta(e)' = Meta(e)
  BY <1>1, Passed, MetaTyped DEF Meta, setup
<1>3. pc'[e] = "up" /\ wire'[e] = Meta(e) /\ node'[e] \in Legacy
  BY <1>1 DEF TypeOK, setup
<1>4. HasWritten(e)'
  BY <1>2, <1>3 DEF HasWritten
<1>5. TypeOK'
  BY <1>1, <1>2 DEF TypeOK, Labels, MetaType, setup
<1>6. Authored'
  <2>1. \A n \in sent : \E f \in Ends :
            \/ HasWritten(f)' /\ n = Meta(f)'
            \/ HasConfirmed(f)' /\ n = Confirmation(f)'
    BY <1>1, <1>3, AuthorsStay DEF HasWritten, HasConfirmed
  <2> QED
    BY <2>1, <1>1, <1>2, <1>4 DEF Authored
<1>7. EndInv(e)'
  BY <1>3, <1>4 DEF EndInv, Written, LegacyPlain, Accepted, Backed
<1>8. Vouched'
  <2>1. got'[e] = m /\ \A f \in Ends \ {e} : got'[f] = got[f]
    BY <1>1 DEF TypeOK
  <2>2. sent \subseteq sent'
    BY <1>1
  <2> QED
    BY <2>1, <2>2, <1>1, VouchersGrow
<1> QED
  BY <1>8, <1>1, <1>5, <1>6, <1>7, OthersStay

\* Every step keeps the invariant.
LEMMA HandshakeStep == HandshakeInv /\ [Next]_vars => HandshakeInv'
<1> SUFFICES ASSUME HandshakeInv, [Next]_vars
             PROVE  HandshakeInv'
  OBVIOUS
<1>1. CASE UNCHANGED vars
  <2> USE <1>1 DEF vars, HandshakeInv
  <2>1. TypeOK'
    BY DEF TypeOK, MetaType
  <2>2. Authored'
    BY DEF Authored, HasWritten, HasConfirmed, Meta, Confirmation, Transcript, MetaType
  <2>3. \A e \in Ends : (Written(e) /\ LegacyPlain(e) /\ Accepted(e))'
    BY DEF EndInv, Written, LegacyPlain, Accepted, HasWritten, Meta, MetaType
  <2>4. \A e \in Ends : Backed(e)'
    BY DEF EndInv, Backed, DecodeConfirmation, Transcript
  <2>5. Vouched'
    BY VouchersStay
  <2> QED
    BY <2>1, <2>2, <2>3, <2>4, <2>5 DEF EndInv
<1>2. ASSUME NEW e \in Ends, Step(e)
      PROVE  HandshakeInv'
  BY <1>2, WriteMetaKeeps, ReadMetaKeeps, WriteConfirmationKeeps, ReadConfirmationKeeps,
     VerifyKeeps, AbortKeeps, LegacyAnswerKeeps DEF Step
<1> QED
  BY <1>1, <1>2 DEF Next

\* The handler keeps its invariant.
THEOREM HandshakeInvariant == Spec => []HandshakeInv
BY HandshakeInit, HandshakeStep, PTL DEF Spec

\* Whatever a relay passes on or takes out of a hello, the variables of handler()
\* have their types, the key and the password it goes by are those of a hello
\* that the owner of the key has written, and a hello that announces the
\* capability is that one to the last field.
THEOREM HandshakeTypes == Spec => [](TypeOK /\ Vouched)
<1>1. HandshakeInv => TypeOK /\ Vouched
  BY DEF HandshakeInv
<1> QED
  BY <1>1, HandshakeInvariant, PTL

\* Whoever finishes with a confirmation, or with requireSecure, agrees on both
\* hellos with the owner of the key it goes by, for any number of nodes,
\* connections and relays.
THEOREM HandshakeAgrees == Spec => []Agreement
BY HandshakeInvariant, InvAgrees, PTL

\* No captured hello or confirmation serves two ends that finish with a
\* confirmation.
THEOREM HandshakeNotReplayed == Spec => []NotReplayed
BY HandshakeInvariant, InvNotReplayed, PTL

----------------------------------------------------------------------------
(* What is on the stream of a connection without a relay.  The properties  *)
(* about waiting, left-overs and the configuration relate the program      *)
(* counters of both ends; the invariant says exactly which messages lie    *)
(* between them.                                                           *)

\* Only who accepts may be a legacy node.
OneLegacy == \A e \in Ends : node[e] \in Legacy => node[Partner(e)] \notin Legacy

\* Who got past the metadata has accepted that of the other end.
Met(e) ==
    pc[e] \in {"confirm", "await", "verify", "up"} =>
        /\ got[e] = Meta(Partner(e))
        /\ node[e] \notin Legacy => Acceptable(e, Meta(Partner(e)))
        /\ pc[e] \in {"confirm", "await"} => node[Partner(e)] \notin Legacy

\* f has written its confirmation, and what it was made from is settled.
Signed(f) ==
    /\ HasWritten(f)
    /\ pc[f] \notin {"start", "meta", "confirm"}
    /\ node[f] \notin Legacy /\ node[Partner(f)] \notin Legacy
    /\ got[f] = Meta(Partner(f))

\* f has written its metadata and no confirmation.
Unsigned(f) ==
    IF node[f] \in Legacy THEN pc[f] = "up"
    ELSE pc[f] \in {"meta", "confirm", "rejected", "aborted"}

\* e has read nothing of what f wrote.
Unread(e, f) ==
    \/ stream[e] = <<>> /\ pc[f] \in {"start", "aborted"}
    \/ stream[e] = <<Meta(f)>> /\ Unsigned(f)
    \/ stream[e] = <<Meta(f), Confirmation(f)>> /\ Signed(f)

\* e has read the metadata and expects a confirmation.
HalfRead(e, f) ==
    \/ stream[e] = <<>> /\ Unsigned(f)
    \/ stream[e] = <<Confirmation(f)>> /\ Signed(f)

\* e has read all that f will ever write.
AllRead(e, f) ==
    /\ stream[e] = <<>>
    /\ pc[f] \in
         IF node[f] \in Legacy THEN {"up"}
         ELSE IF node[e] \in Legacy THEN {"meta", "verify", "up", "rejected", "aborted"}
         ELSE {"await", "verify", "up", "rejected", "aborted"}

\* What lies on the way to e, from where the two handlers are.
Incoming(e) ==
    /\ pc[e] \in {"start", "meta"} => Unread(e, Partner(e))
    /\ pc[e] \in {"confirm", "await"} => HalfRead(e, Partner(e))
    /\ pc[e] \in {"verify", "up"} => AllRead(e, Partner(e))

\* FollowsConfiguration for one end.
Follows(e) ==
    node[e] \notin Legacy =>
        /\ pc[e] = "rejected" => ~Compatible(e, Partner(e))
        /\ pc[e] = "up" => Compatible(e, Partner(e))

DirectInv(e) == Met(e) /\ Incoming(e) /\ Follows(e)

StreamInv ==
    /\ stream = [e \in Ends |-> stream[e]]
    /\ OneLegacy
    /\ \A e \in Ends : e[1] \notin Relayed => DirectInv(e)

\* The two ends of a connection are each other's partners.
LEMMA PartnerFacts ==
    ASSUME NEW e \in Ends
    PROVE  /\ Partner(e) \in Ends /\ Partner(e) # e
           /\ Partner(Partner(e)) = e /\ Partner(e)[1] = e[1]
BY DEF Partner, Ends

\* The second message on a stream.
LEMMA AppendSecond ==
    ASSUME NEW m, NEW n
    PROVE  Append(<<m>>, n) = <<m, n>>
<1>1. ASSUME NEW S, NEW s \in Seq(S), Len(s) = 2
      PROVE  s = <<s[1], s[2]>>
  BY <1>1
<1> DEFINE t == Append(<<m>>, n)
<1>2. <<m>> \in Seq({m, n}) /\ n \in {m, n} /\ Len(<<m>>) = 1 /\ <<m>>[1] = m
  OBVIOUS
<1>3. t \in Seq({m, n}) /\ Len(t) = 2 /\ t[1] = m /\ t[2] = n
  BY <1>2
<1>4. t = <<t[1], t[2]>>
  <2> HIDE DEF t
  <2> QED
    BY <1>1, <1>3
<1> QED
  BY <1>3, <1>4

\* Streams of at most two messages.
LEMMA Short ==
    ASSUME NEW m, NEW n
    PROVE  /\ Append(<<>>, m) = <<m>> /\ Append(<<m>>, n) = <<m, n>>
           /\ <<m>> # <<>> /\ Head(<<m>>) = m /\ Tail(<<m>>) = <<>>
           /\ <<m, n>> # <<>> /\ Head(<<m, n>>) = m /\ Tail(<<m, n>>) = <<n>>
<1>1. Append(<<>>, m) = <<m>> /\ <<m>> # <<>> /\ Head(<<m>>) = m /\ Tail(<<m>>) = <<>>
  OBVIOUS
<1>2. <<m, n>> # <<>> /\ Head(<<m, n>>) = m
  OBVIOUS
<1>3. Tail(<<m, n>>) = <<n>>
  OBVIOUS
<1> QED
  BY <1>1, <1>2, <1>3, AppendSecond

\* The checks of handler(), taken together, are the two configurations.
LEMMA ChecksAreConfiguration ==
    ASSUME NEW e \in Ends, Partner(e) \in Ends
    PROVE  /\ Compatible(e, Partner(e)) => Acceptable(e, Meta(Partner(e)))
           /\ got[e] = Meta(Partner(e)) /\ Acceptable(e, Meta(Partner(e)))
                => (Authorised(e) <=> Compatible(e, Partner(e)))
<1> DEFINE f == Partner(e)
<1>1. /\ Meta(f).kind = "meta" /\ Meta(f).key = node[f] /\ Meta(f).version = Version[node[f]]
      /\ Meta(f).confirm <=> node[f] \notin Legacy
      /\ Meta(f).password = option[f].password
  BY DEF Meta
<1>2. /\ Acceptable(e, Meta(f)) <=>
           /\ option[f].password = option[e].password
           /\ Version[node[f]] = Version[node[e]]
           /\ node[f] # node[e]
           /\ node[f] \notin Legacy \/ ~option[e].secure
  BY <1>1 DEF Acceptable, DecodeMeta
<1>3. got[e] = Meta(f) => got[e].key = node[f]
  BY <1>1
<1> QED
  BY <1>2, <1>3 DEF Compatible, Authorised

----------------------------------------------------------------------------
\* What a step of e leaves alone on the streams.
Frame(e) ==
    /\ Local(e)
    /\ stream' = [g \in Ends |-> stream'[g]]
    /\ \A g \in Ends : e[1] \in Relayed \/ g \notin {e, Partner(e)} => stream'[g] = stream[g]

\* A step of an end touches the two streams of its connection only, and none
\* when there is a relay in the middle.
LEMMA StepFrame ==
    ASSUME TypeOK, StreamInv, NEW e \in Ends, Step(e)
    PROVE  Frame(e)
<1>1. Local(e)
  BY DEF TypeOK, Step, WriteMeta, ReadMeta, WriteConfirmation, ReadConfirmation, Verify, Abort,
         LegacyAnswer, Write, Read, Goto, Local, setup
<1>2. \/ stream' = stream
      \/ e[1] \notin Relayed /\ \E m : stream' = [stream EXCEPT ![Partner(e)] = Append(@, m)]
      \/ e[1] \notin Relayed /\ stream' = [stream EXCEPT ![e] = Tail(@)]
      \/ e[1] \notin Relayed
           /\ \E m : stream' = [stream EXCEPT ![e] = Tail(@), ![Partner(e)] = Append(@, m)]
  BY DEF Step, WriteMeta, ReadMeta, WriteConfirmation, ReadConfirmation, Verify, Abort,
         LegacyAnswer, Write, Read
<1> QED
  BY <1>1, <1>2 DEF Frame, StreamInv

\* Metadata is fixed by the configuration.
LEMMA MetaStays ==
    ASSUME UNCHANGED setup, NEW g
    PROVE  /\ Meta(g)' = Meta(g)
           /\ \A m : Acceptable(g, m)' <=> Acceptable(g, m)
           /\ \A h : Compatible(g, h)' <=> Compatible(g, h)
BY DEF Meta, Acceptable, DecodeMeta, Compatible, setup

\* An end that does not move has still accepted the other's metadata, and is
\* still right about the configuration.
LEMMA MetStays ==
    ASSUME UNCHANGED setup, NEW g \in Ends, pc'[g] = pc[g], got'[g] = got[g], Met(g), Follows(g)
    PROVE  Met(g)' /\ Follows(g)'
BY MetaStays DEF Met, Follows, setup, Acceptable, DecodeMeta, Meta, Compatible

\* A connection without a relay keeps its part while another end moves.
LEMMA OtherConnections ==
    ASSUME StreamInv, NEW e \in Ends, Frame(e), NEW g \in Ends, g[1] \notin Relayed,
           e[1] \in Relayed \/ g \notin {e, Partner(e)}
    PROVE  DirectInv(g)'
<1> DEFINE h == Partner(g)
<1>1. h \in Ends /\ g # e /\ h # e
  BY PartnerFacts
<1>2. UNCHANGED setup /\ stream'[g] = stream[g]
      /\ pc'[g] = pc[g] /\ wire'[g] = wire[g] /\ got'[g] = got[g]
      /\ pc'[h] = pc[h] /\ wire'[h] = wire[h] /\ got'[h] = got[h]
  BY <1>1 DEF Frame, Local
<1>3. Met(g) /\ Incoming(g) /\ Follows(g)
  BY DEF StreamInv, DirectInv
<1>4. Meta(h)' = Meta(h) /\ Meta(Partner(h))' = Meta(Partner(h)) /\ Confirmation(h)' = Confirmation(h)
  BY <1>2, MetaStays DEF Confirmation, Transcript, setup
<1>5. (Unsigned(h)' <=> Unsigned(h)) /\ (Signed(h)' <=> Signed(h))
  BY <1>2, <1>4 DEF Unsigned, Signed, HasWritten, setup
<1>6. Incoming(g)'
  BY <1>2, <1>3, <1>4, <1>5 DEF Incoming, Unread, HalfRead, AllRead, setup
<1> QED
  BY <1>2, <1>3, <1>6, MetStays DEF DirectInv

----------------------------------------------------------------------------
\* Where a step of e finds the other end of its connection, and leaves it.
LEMMA OtherEnd ==
    ASSUME HandshakeInv, StreamInv, NEW e \in Ends, e[1] \notin Relayed, Frame(e)
    PROVE  LET f == Partner(e) IN
           /\ f \in Ends /\ f # e /\ Partner(f) = e
           /\ DirectInv(e) /\ DirectInv(f)
           /\ node' = node /\ option' = option
           /\ pc'[f] = pc[f] /\ wire'[f] = wire[f] /\ got'[f] = got[f]
           /\ Meta(e)' = Meta(e) /\ Meta(f)' = Meta(f) /\ Confirmation(f)' = Confirmation(f)
           /\ Signed(f)' <=> Signed(f)
           /\ Unsigned(f)' <=> Unsigned(f)
           /\ Met(f)' /\ Follows(f)'
<1> DEFINE f == Partner(e)
<1>1. f \in Ends /\ f # e /\ Partner(f) = e /\ f[1] \notin Relayed
  BY PartnerFacts
<1>2. Met(e) /\ Incoming(e) /\ Follows(e) /\ Met(f) /\ Incoming(f) /\ Follows(f)
  BY <1>1 DEF StreamInv, DirectInv
<1>3. UNCHANGED setup /\ node' = node /\ option' = option
      /\ pc'[f] = pc[f] /\ wire'[f] = wire[f] /\ got'[f] = got[f]
  BY <1>1 DEF Frame, Local, setup
<1>4. Meta(e)' = Meta(e) /\ Meta(f)' = Meta(f)
  BY <1>3, MetaStays
<1>5. Confirmation(f)' = Confirmation(f)
  BY <1>3 DEF Confirmation, Transcript
<1>6. (Signed(f)' <=> Signed(f)) /\ (Unsigned(f)' <=> Unsigned(f))
  BY <1>1, <1>3, <1>4 DEF Signed, Unsigned, HasWritten
<1>7. Met(f)' /\ Follows(f)'
  BY <1>1, <1>2, <1>3, MetStays
<1> QED
  BY <1>1, <1>2, <1>3, <1>4, <1>5, <1>6, <1>7 DEF DirectInv

\* What one step has to show for its connection.
Kept(e) == DirectInv(e)' /\ Incoming(Partner(e))'

\* One lemma for each action: the metadata is the first thing on the stream.
LEMMA WriteMetaStream ==
    ASSUME HandshakeInv, StreamInv, NEW e \in Ends, e[1] \notin Relayed, Frame(e), WriteMeta(e)
    PROVE  Kept(e)
<1> DEFINE f == Partner(e)
<1>1. /\ f \in Ends /\ f # e /\ Partner(f) = e
      /\ Met(e) /\ Incoming(e) /\ Met(f) /\ Incoming(f)
      /\ node' = node /\ pc'[f] = pc[f]
      /\ Meta(e)' = Meta(e) /\ Meta(f)' = Meta(f) /\ Confirmation(f)' = Confirmation(f)
      /\ Signed(f)' <=> Signed(f)
      /\ Unsigned(f)' <=> Unsigned(f)
  BY OtherEnd DEF DirectInv
<1> HIDE DEF f
<1>2. /\ pc[e] = "start" /\ node[e] \notin Legacy /\ pc'[e] = "meta"
      /\ stream'[f] = Append(stream[f], Meta(e)) /\ stream'[e] = stream[e]
  BY <1>1 DEF WriteMeta, Write, Goto, HandshakeInv, TypeOK, StreamInv, f
<1>3. Unread(e, f)'
  BY <1>1, <1>2 DEF Incoming, Unread, f
<1>4. Met(e)' /\ Incoming(e)' /\ Follows(e)'
  BY <1>2, <1>3 DEF Met, Incoming, Follows, f
<1>5. ~Unsigned(e) /\ ~Signed(e) /\ ~AllRead(f, e)
  BY <1>2 DEF Unsigned, Signed, AllRead
<1>6. Unsigned(e)'
  BY <1>1, <1>2 DEF Unsigned
<1>7. pc[f] \in {"start", "meta"} => stream[f] = <<>>
  BY <1>1, <1>5 DEF Incoming, Unread
<1>8. pc[f] \in {"start", "meta"} => stream'[f] = <<Meta(e)'>>
  BY <1>1, <1>2, <1>7, Short
<1>9. pc[f] \notin {"confirm", "await", "verify", "up"}
  BY <1>1, <1>5 DEF Incoming, HalfRead
<1>10. Incoming(f)'
  BY <1>1, <1>6, <1>8, <1>9 DEF Incoming, Unread
<1> QED
  BY <1>4, <1>10 DEF Kept, DirectInv, f

\* What is read first is the metadata of the other end, and nothing else of it
\* is left when no confirmation will follow.
LEMMA ReadMetaStream ==
    ASSUME HandshakeInv, StreamInv, NEW e \in Ends, e[1] \notin Relayed, Frame(e),
           NEW m \in Passable, ReadMeta(e, m)
    PROVE  Kept(e)
<1> DEFINE f == Partner(e)
<1>1. /\ f \in Ends /\ f # e /\ Partner(f) = e
      /\ Met(e) /\ Incoming(e) /\ Met(f) /\ Incoming(f)
      /\ node' = node /\ pc'[f] = pc[f]
      /\ Meta(e)' = Meta(e) /\ Meta(f)' = Meta(f) /\ Confirmation(f)' = Confirmation(f)
      /\ Signed(f)' <=> Signed(f)
      /\ Unsigned(f)' <=> Unsigned(f)
  BY OtherEnd DEF DirectInv
<1> HIDE DEF f
<1>2. /\ pc[e] = "meta" /\ node[e] \notin Legacy
      /\ stream[e] # <<>> /\ m = Head(stream[e])
      /\ stream'[e] = Tail(stream[e]) /\ stream'[f] = stream[f]
  BY <1>1 DEF ReadMeta, Read, StreamInv
<1>3. /\ m = Meta(f)
      /\ \/ stream'[e] = <<>> /\ Unsigned(f)
         \/ stream'[e] = <<Confirmation(f)>> /\ Signed(f)
  <2>1. \/ stream[e] = <<Meta(f)>> /\ Unsigned(f)
        \/ stream[e] = <<Meta(f), Confirmation(f)>> /\ Signed(f)
    BY <1>1, <1>2 DEF Incoming, Unread, f
  <2>2. CASE stream[e] = <<Meta(f)>> /\ Unsigned(f)
    BY <1>2, <2>2, Short
  <2>3. CASE stream[e] = <<Meta(f), Confirmation(f)>> /\ Signed(f)
    BY <1>2, <2>3, Short
  <2> QED
    BY <2>1, <2>2, <2>3
<1>4. m.confirm <=> node[f] \notin Legacy
  BY <1>3 DEF Meta
<1>5. node[f] \in Legacy => stream'[e] = <<>> /\ pc[f] = "up"
  BY <1>3 DEF Signed, Unsigned
<1>6. \A h : (Acceptable(e, m)' <=> Acceptable(e, m)) /\ (Compatible(e, h)' <=> Compatible(e, h))
  BY MetaStays DEF Frame, Local
<1>7. \/ /\ Acceptable(e, m) /\ got'[e] = m /\ node[f] \notin Legacy /\ pc'[e] = "confirm"
      \/ /\ Acceptable(e, m) /\ got'[e] = m /\ node[f] \in Legacy /\ pc'[e] = "verify"
      \/ ~Acceptable(e, m) /\ pc'[e] = "rejected"
  BY <1>4 DEF ReadMeta, Goto, HandshakeInv, TypeOK
<1>8. Met(e)'
  BY <1>1, <1>3, <1>6, <1>7 DEF Met, f
<1>9. Follows(e)'
  BY <1>1, <1>3, <1>6, <1>7, ChecksAreConfiguration DEF Follows, f
<1>10. Incoming(e)'
  BY <1>1, <1>3, <1>5, <1>7 DEF Incoming, HalfRead, AllRead, f
<1>11. ~Signed(e) /\ Unsigned(e)
  BY <1>2 DEF Signed, Unsigned
<1>12. pc'[e] \in {"confirm", "rejected"} => Unsigned(e)'
  BY <1>1, <1>2 DEF Unsigned
<1>13. pc[f] \in {"start", "meta"} => Unread(f, e)'
  BY <1>1, <1>2, <1>5, <1>7, <1>11, <1>12 DEF Incoming, Unread
<1>14. pc[f] \in {"confirm", "await"} => HalfRead(f, e)'
  BY <1>1, <1>2, <1>5, <1>7, <1>11, <1>12 DEF Incoming, HalfRead
<1>15. pc[f] \in {"verify", "up"} => AllRead(f, e)'
  BY <1>1, <1>2, <1>7 DEF Incoming, AllRead
<1> QED
  BY <1>1, <1>8, <1>9, <1>10, <1>13, <1>14, <1>15 DEF Kept, DirectInv, Incoming, f

\* The confirmation follows the metadata.
LEMMA WriteConfirmationStream ==
    ASSUME HandshakeInv, StreamInv, NEW e \in Ends, e[1] \notin Relayed, Frame(e),
           WriteConfirmation(e)
    PROVE  Kept(e)
<1> DEFINE f == Partner(e)
<1>1. /\ f \in Ends /\ f # e /\ Partner(f) = e
      /\ Met(e) /\ Incoming(e) /\ Met(f) /\ Incoming(f)
      /\ node' = node /\ pc'[f] = pc[f]
      /\ Meta(e)' = Meta(e) /\ Meta(f)' = Meta(f) /\ Confirmation(f)' = Confirmation(f)
      /\ Signed(f)' <=> Signed(f)
      /\ Unsigned(f)' <=> Unsigned(f)
  BY OtherEnd DEF DirectInv
<1> HIDE DEF f
<1>2. /\ pc[e] = "confirm" /\ pc'[e] = "await" /\ got' = got /\ wire' = wire /\ UNCHANGED setup
      /\ stream'[f] = Append(stream[f], Confirmation(e)) /\ stream'[e] = stream[e]
  BY <1>1 DEF WriteConfirmation, Write, Goto, HandshakeInv, TypeOK, StreamInv, f
<1>3. node[e] \notin Legacy /\ HasWritten(e)
  BY <1>2 DEF HandshakeInv, EndInv, LegacyPlain, Written
<1>4. /\ got[e] = Meta(f) /\ node[f] \notin Legacy /\ Acceptable(e, Meta(f))
      /\ HalfRead(e, f)
  BY <1>1, <1>2, <1>3 DEF Met, Incoming, f
<1>5. Confirmation(e)' = Confirmation(e) /\ (Acceptable(e, Meta(f)) => Acceptable(e, Meta(f))')
  BY <1>1, <1>2 DEF Confirmation, Transcript, setup, Acceptable, DecodeMeta
<1>6. HasWritten(e)'
  BY <1>1, <1>2, <1>3 DEF HasWritten
<1>7. Signed(e)'
  BY <1>1, <1>2, <1>3, <1>4, <1>6 DEF Signed, f
<1>8. HalfRead(e, f)'
  BY <1>1, <1>2, <1>4 DEF HalfRead
<1>9. Met(e)' /\ Incoming(e)' /\ Follows(e)'
  BY <1>1, <1>2, <1>4, <1>5, <1>8 DEF Met, Incoming, Follows, f
<1>10. ~Signed(e) /\ ~AllRead(f, e)
  BY <1>2, <1>3, <1>4 DEF Signed, AllRead
<1>11. pc[f] \in {"start", "meta"} => stream'[f] = <<Meta(e)', Confirmation(e)'>>
  <2>1. pc[f] \in {"start", "meta"} => stream[f] = <<Meta(e)>>
    BY <1>1, <1>2, <1>10 DEF Incoming, Unread
  <2>2. Append(<<Meta(e)>>, Confirmation(e)) = <<Meta(e), Confirmation(e)>>
    BY AppendSecond
  <2> QED
    BY <1>1, <1>2, <1>5, <2>1, <2>2
<1>12. pc[f] \in {"confirm", "await"} => stream'[f] = <<Confirmation(e)'>>
  BY <1>1, <1>2, <1>5, <1>10, Short DEF Incoming, HalfRead
<1>13. Incoming(f)'
  BY <1>1, <1>7, <1>10, <1>11, <1>12 DEF Incoming, Unread, HalfRead
<1> QED
  BY <1>9, <1>13 DEF Kept, DirectInv, f

\* On a connection without a relay the confirmation always fits.
LEMMA ReadConfirmationStream ==
    ASSUME HandshakeInv, StreamInv, NEW e \in Ends, e[1] \notin Relayed, Frame(e),
           NEW m \in Passable, ReadConfirmation(e, m)
    PROVE  Kept(e)
<1> DEFINE f == Partner(e)
<1>1. /\ f \in Ends /\ f # e /\ Partner(f) = e
      /\ Met(e) /\ Incoming(e) /\ Met(f) /\ Incoming(f)
      /\ node' = node /\ pc'[f] = pc[f]
      /\ Meta(e)' = Meta(e) /\ Meta(f)' = Meta(f) /\ Confirmation(f)' = Confirmation(f)
      /\ Signed(f)' <=> Signed(f)
      /\ Unsigned(f)' <=> Unsigned(f)
  BY OtherEnd DEF DirectInv
<1> HIDE DEF f
<1>2. /\ pc[e] = "await" /\ got' = got /\ wire' = wire /\ UNCHANGED setup
      /\ stream[e] # <<>> /\ m = Head(stream[e])
      /\ stream'[e] = Tail(stream[e]) /\ stream'[f] = stream[f]
  BY <1>1 DEF ReadConfirmation, Read, StreamInv
<1>3. node[e] \notin Legacy /\ wire[e] = Meta(e)
  BY <1>2 DEF HandshakeInv, EndInv, LegacyPlain, Written, HasWritten
<1>4. got[e] = Meta(f) /\ node[f] \notin Legacy /\ Acceptable(e, Meta(f))
  BY <1>1, <1>2, <1>3 DEF Met, f
<1>5. m = Confirmation(f) /\ Signed(f) /\ stream'[e] = <<>>
  BY <1>1, <1>2, Short DEF Incoming, HalfRead, f
<1>6. got[f] = Meta(e) /\ wire[f] = Meta(f)
      /\ pc[f] \in {"await", "verify", "up", "rejected", "aborted"}
  BY <1>1, <1>5 DEF Signed, HasWritten, HandshakeInv, TypeOK, Labels, f
<1>7. DecodeConfirmation(e, m)
  <2>1. m.kind = "conf" /\ m.key = node[f] /\ m.password = option[f].password
        /\ m.transcript = {Meta(f), Meta(e)}
    BY <1>5, <1>6 DEF Confirmation, Transcript
  <2>2. got[e].key = node[f] /\ option[f].password = option[e].password
    BY <1>4 DEF Acceptable, DecodeMeta, Meta
  <2> QED
    BY <2>1, <2>2, <1>3, <1>4 DEF DecodeConfirmation, Transcript
<1>8. pc'[e] = "verify"
  BY <1>7 DEF ReadConfirmation, Goto, HandshakeInv, TypeOK
<1>9. Confirmation(e)' = Confirmation(e) /\ (Acceptable(e, Meta(f)) => Acceptable(e, Meta(f))')
  BY <1>1, <1>2 DEF Confirmation, Transcript, setup, Acceptable, DecodeMeta
<1>10. Met(e)' /\ Incoming(e)' /\ Follows(e)'
  BY <1>1, <1>2, <1>3, <1>4, <1>5, <1>6, <1>8, <1>9 DEF Met, Incoming, AllRead, Follows, f
<1>11. ~Unsigned(e) /\ (Signed(e) => Signed(e)')
  BY <1>1, <1>2, <1>3, <1>8 DEF Unsigned, Signed, HasWritten, f
<1>12. pc[f] \in {"start", "meta"} => Unread(f, e)'
  BY <1>1, <1>2, <1>9, <1>11 DEF Incoming, Unread
<1>13. pc[f] \in {"confirm", "await"} => HalfRead(f, e)'
  BY <1>1, <1>2, <1>9, <1>11 DEF Incoming, HalfRead
<1>14. pc[f] \in {"verify", "up"} => AllRead(f, e)'
  BY <1>1, <1>2, <1>3, <1>4, <1>8 DEF Incoming, AllRead
<1> QED
  BY <1>1, <1>10, <1>12, <1>13, <1>14 DEF Kept, DirectInv, Incoming, f

\* The checks that follow read nothing, and decide by the configuration.
LEMMA VerifyStream ==
    ASSUME HandshakeInv, StreamInv, NEW e \in Ends, e[1] \notin Relayed, Frame(e), Verify(e)
    PROVE  Kept(e)
<1> DEFINE f == Partner(e)
<1>1. /\ f \in Ends /\ f # e /\ Partner(f) = e
      /\ Met(e) /\ Incoming(e) /\ Met(f) /\ Incoming(f)
      /\ node' = node /\ pc'[f] = pc[f]
      /\ Meta(e)' = Meta(e) /\ Meta(f)' = Meta(f)
  BY OtherEnd DEF DirectInv
<1> HIDE DEF f
<1>2. /\ pc[e] = "verify" /\ got' = got /\ wire' = wire /\ stream' = stream /\ UNCHANGED setup
      /\ \/ pc'[e] = "up" /\ Authorised(e)
         \/ pc'[e] = "rejected" /\ ~Authorised(e)
  BY DEF Verify, Goto, HandshakeInv, TypeOK
<1>3. node[e] \notin Legacy
  BY <1>2 DEF HandshakeInv, EndInv, LegacyPlain
<1>4. got[e] = Meta(f) /\ Acceptable(e, Meta(f)) /\ AllRead(e, f)
  BY <1>1, <1>2, <1>3 DEF Met, Incoming, f
<1>5. Authorised(e) <=> Compatible(e, f)
  BY <1>1, <1>4, ChecksAreConfiguration DEF f
<1>6. /\ Confirmation(e)' = Confirmation(e) /\ (Acceptable(e, Meta(f)) => Acceptable(e, Meta(f))')
      /\ Compatible(e, f)' <=> Compatible(e, f)
  BY <1>1, <1>2 DEF Confirmation, Transcript, setup, Acceptable, DecodeMeta, Compatible
<1>7. Met(e)' /\ Incoming(e)' /\ Follows(e)'
  BY <1>1, <1>2, <1>4, <1>5, <1>6 DEF Met, Incoming, AllRead, Follows, f
<1>8. ~Unsigned(e) /\ (Signed(e) => Signed(e)')
  BY <1>1, <1>2, <1>3 DEF Unsigned, Signed, HasWritten, f
<1>9. pc[f] \in {"start", "meta"} => Unread(f, e)'
  BY <1>1, <1>2, <1>6, <1>8 DEF Incoming, Unread
<1>10. pc[f] \in {"confirm", "await"} => HalfRead(f, e)'
  BY <1>1, <1>2, <1>6, <1>8 DEF Incoming, HalfRead
<1>11. pc[f] \in {"verify", "up"} => AllRead(f, e)'
  BY <1>1, <1>2, <1>3 DEF Incoming, AllRead
<1> QED
  BY <1>1, <1>7, <1>9, <1>10, <1>11 DEF Kept, DirectInv, Incoming, f

\* A closed connection leaves what was written where it is.
LEMMA AbortStream ==
    ASSUME HandshakeInv, StreamInv, NEW e \in Ends, e[1] \notin Relayed, Frame(e), Abort(e)
    PROVE  Kept(e)
<1> DEFINE f == Partner(e)
<1>1. /\ f \in Ends /\ f # e /\ Partner(f) = e
      /\ Incoming(f) /\ node' = node /\ pc'[f] = pc[f]
      /\ Meta(e)' = Meta(e) /\ Meta(f)' = Meta(f)
  BY OtherEnd DEF DirectInv
<1> HIDE DEF f
<1>2. /\ pc[e] \notin {"up", "rejected", "aborted"} /\ pc'[e] = "aborted"
      /\ got' = got /\ wire' = wire /\ stream' = stream /\ UNCHANGED setup
  BY DEF Abort, Goto, HandshakeInv, TypeOK
<1>3. DirectInv(e)'
  BY <1>2 DEF DirectInv, Met, Incoming, Follows
<1>4. Confirmation(e)' = Confirmation(e)
  BY <1>2 DEF Confirmation, Transcript, setup
<1>5. (Signed(e) => Signed(e)') /\ (Unsigned(e) => Unsigned(e)')
  BY <1>1, <1>2 DEF Unsigned, Signed, HasWritten, f
<1>6. pc[f] \in {"start", "meta"} => Unread(f, e)'
  BY <1>1, <1>2, <1>4, <1>5 DEF Incoming, Unread
<1>7. pc[f] \in {"confirm", "await"} => HalfRead(f, e)'
  BY <1>1, <1>2, <1>4, <1>5 DEF Incoming, HalfRead
<1>8. pc[f] \in {"verify", "up"} => AllRead(f, e)'
  BY <1>1, <1>2 DEF Incoming, AllRead
<1> QED
  BY <1>1, <1>3, <1>6, <1>7, <1>8 DEF Kept, Incoming, f

\* A legacy node has read all, and its answer is all it writes.
LEMMA LegacyAnswerStream ==
    ASSUME HandshakeInv, StreamInv, NEW e \in Ends, e[1] \notin Relayed, Frame(e),
           NEW m \in Passable, LegacyAnswer(e, m)
    PROVE  Kept(e)
<1> DEFINE f == Partner(e)
<1>1. /\ f \in Ends /\ f # e /\ Partner(f) = e
      /\ Incoming(e) /\ Met(f) /\ Incoming(f)
      /\ node' = node /\ pc'[f] = pc[f]
      /\ Meta(e)' = Meta(e) /\ Meta(f)' = Meta(f)
  BY OtherEnd DEF DirectInv
<1> HIDE DEF f
<1>2. /\ pc[e] = "start" /\ node[e] \in Legacy /\ pc'[e] = "up" /\ got'[e] = m
      /\ stream[e] # <<>> /\ m = Head(stream[e])
      /\ stream'[e] = Tail(stream[e]) /\ stream'[f] = Append(stream[f], Meta(e))
  BY <1>1 DEF LegacyAnswer, Goto, HandshakeInv, TypeOK, StreamInv, f
<1>3. node[f] \notin Legacy /\ ~Signed(f)
  BY <1>1, <1>2 DEF StreamInv, OneLegacy, Signed, f
<1>4. m = Meta(f) /\ stream'[e] = <<>> /\ Unsigned(f)
  BY <1>1, <1>2, <1>3, Short DEF Incoming, Unread, f
<1>5. pc[f] \in {"meta", "rejected", "aborted"}
  BY <1>1, <1>2, <1>3, <1>4 DEF Unsigned, Met
<1>6. DirectInv(e)'
  BY <1>1, <1>2, <1>3, <1>4, <1>5 DEF DirectInv, Met, Incoming, AllRead, Follows, f
<1>7. ~Signed(e) /\ ~Unsigned(e)
  BY <1>2 DEF Signed, Unsigned
<1>8. pc[f] \in {"start", "meta"} => stream'[f] = <<Meta(e)'>>
  BY <1>1, <1>2, <1>7, Short DEF Incoming, Unread
<1>9. Unsigned(e)'
  BY <1>1, <1>2 DEF Unsigned
<1>10. Incoming(f)'
  BY <1>1, <1>5, <1>8, <1>9 DEF Incoming, Unread
<1> QED
  BY <1>6, <1>10 DEF Kept, f

----------------------------------------------------------------------------
\* Nothing is on any stream when the connections are open.
LEMMA StreamInit == Init => StreamInv
<1> SUFFICES ASSUME Init
             PROVE  StreamInv
  OBVIOUS
<1>1. stream = [e \in Ends |-> stream[e]]
  BY DEF Init
<1>2. OneLegacy
  BY DEF Init, OneLegacy, Partner, Ends
<1>3. ASSUME NEW e \in Ends
      PROVE  DirectInv(e)
  <2>1. Partner(e) \in Ends
    BY PartnerFacts
  <2>2. pc[e] = "start" /\ pc[Partner(e)] = "start" /\ stream[e] = <<>>
    BY <2>1 DEF Init
  <2> QED
    BY <2>2 DEF DirectInv, Met, Incoming, Unread, Follows
<1> QED
  BY <1>1, <1>2, <1>3 DEF StreamInv

\* Every step keeps what is between the two ends.
LEMMA StreamStep == HandshakeInv /\ StreamInv /\ [Next]_vars => StreamInv'
<1> SUFFICES ASSUME HandshakeInv, StreamInv, [Next]_vars
             PROVE  StreamInv'
  OBVIOUS
<1>1. CASE UNCHANGED vars
  <2> USE <1>1 DEF vars
  <2>1. OneLegacy' /\ stream' = [g \in Ends |-> stream'[g]]
    BY DEF StreamInv, OneLegacy
  <2>2. ASSUME NEW g \in Ends, g[1] \notin Relayed
        PROVE  DirectInv(g)'
    <3>1. Met(g) /\ Incoming(g) /\ Follows(g)
      BY <2>2 DEF StreamInv, DirectInv
    <3>2. Met(g)' /\ Follows(g)'
      BY <3>1, MetStays DEF setup
    <3>3. Incoming(g)'
      BY <3>1 DEF Incoming, Unread, HalfRead, AllRead, Signed, Unsigned, HasWritten, Meta,
                  Confirmation, Transcript
    <3> QED
      BY <3>2, <3>3 DEF DirectInv
  <2> QED
    BY <2>1, <2>2 DEF StreamInv
<1>2. ASSUME NEW e \in Ends, Step(e)
      PROVE  StreamInv'
  <2>1. Frame(e)
    BY <1>2, StepFrame DEF HandshakeInv
  <2>2. OneLegacy'
    BY <2>1 DEF StreamInv, OneLegacy, Frame, Local, setup
  <2>3. ASSUME NEW g \in Ends, g[1] \notin Relayed, e[1] \in Relayed \/ g \notin {e, Partner(e)}
        PROVE  DirectInv(g)'
    BY <2>1, <2>3, OtherConnections
  <2>4. ASSUME e[1] \notin Relayed
        PROVE  DirectInv(e)' /\ DirectInv(Partner(e))'
    <3>1. Kept(e)
      BY <1>2, <2>1, <2>4, WriteMetaStream, ReadMetaStream, WriteConfirmationStream,
         ReadConfirmationStream, VerifyStream, AbortStream, LegacyAnswerStream DEF Step
    <3> QED
      BY <3>1, <2>1, <2>4, OtherEnd DEF Kept, DirectInv
  <2> QED
    BY <2>1, <2>2, <2>3, <2>4 DEF StreamInv, Frame
<1> QED
  BY <1>1, <1>2 DEF Next

\* Where the two handlers of a connection without a relay are tells what is on
\* the way between them.
THEOREM StreamInvariant == Spec => [](HandshakeInv /\ StreamInv)
BY HandshakeInit, HandshakeStep, StreamInit, StreamStep, PTL DEF Spec

\* The two ends of a connection never wait for each other, whatever the mix of
\* current and legacy nodes and of options.
THEOREM NeverWaitForEachOther == Spec => []NoMutualWait
<1>1. HandshakeInv /\ StreamInv => NoMutualWait
  <2> SUFFICES ASSUME HandshakeInv, StreamInv, NEW e \in Ends, e[1] \notin Relayed,
                      Waits(e), Waits(Partner(e))
               PROVE  FALSE
    BY DEF NoMutualWait
  <2> DEFINE f == Partner(e)
  <2>1. f \in Ends /\ Partner(f) = e /\ f[1] \notin Relayed
    BY PartnerFacts
  <2>2. Incoming(e) /\ Incoming(f) /\ LegacyPlain(e) /\ LegacyPlain(f)
        /\ (node[e] \in Legacy => node[f] \notin Legacy)
    BY <2>1 DEF StreamInv, DirectInv, HandshakeInv, EndInv, OneLegacy
  <2>3. /\ stream[e] = <<>> /\ stream[f] = <<>>
        /\ pc[e] \in {"meta", "await"} \/ (pc[e] = "start" /\ node[e] \in Legacy)
        /\ pc[f] \in {"meta", "await"} \/ (pc[f] = "start" /\ node[f] \in Legacy)
    BY DEF Waits
  <2>4. \A m, n : <<>> # <<m>> /\ <<>> # <<m, n>>
    BY Short
  <2> HIDE DEF f
  <2>5. pc[e] # "await" /\ pc[f] # "await"
    BY <2>1, <2>2, <2>3, <2>4 DEF Incoming, HalfRead, Unsigned, LegacyPlain, f, Unread
  <2> QED
    BY <2>1, <2>2, <2>3, <2>4, <2>5 DEF Incoming, Unread, f
<1> QED
  BY <1>1, StreamInvariant, PTL

\* HandleConn never finds a message of the handshake on its connection.
THEOREM NothingIsLeftOver == Spec => []NoResidue
<1>1. StreamInv => NoResidue
  BY DEF StreamInv, DirectInv, Incoming, AllRead, NoResidue
<1> QED
  BY <1>1, StreamInvariant, PTL

\* Without a relay, handler() rejects only what the two configurations forbid and
\* connects only what they allow: no message is ever the reason of a rejection.
THEOREM ConfigurationDecides == Spec => []FollowsConfiguration
<1>1. StreamInv => FollowsConfiguration
  BY DEF StreamInv, DirectInv, Follows, FollowsConfiguration
<1> QED
  BY <1>1, StreamInvariant, PTL
=============================================================================
