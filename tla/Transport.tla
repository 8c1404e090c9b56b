------------------------------ MODULE Transport ------------------------------
(***************************************************************************)
(* Init messages between write_to and read_from: any message, key and salt *)
(* from sets that are parameters, and what the buffer holds behind it.     *)
(***************************************************************************)
EXTENDS InitMsg, Asking

CONSTANTS Messages, PublicKeys, Salts,  \* init messages, and who signs them
          TrustedKeys,                  \* lists of keys
          Leftovers                     \* what a buffer holds behind a message

\* A message has the fields of its stage.
IsMessage(msg) ==
    /\ msg \in [stage : {STAGE_PING, STAGE_PONG, STAGE_PENG},
               salted_node_id_hash : {"id"} \X Nat,
               ecdh_public_key : ({"ecdh"} \X Nat) \cup {Absent},
               algorithms : [algorithm_speeds : Seq((1 .. 3) \X Nat),
                             allow_unencrypted : BOOLEAN] \cup {Absent},
               encrypted_payload : Seq({"payload"} \X Nat) \cup {Absent}]
    /\ msg.salted_node_id_hash # Absent
    /\ msg.ecdh_public_key = Absent <=> msg.stage = STAGE_PENG
    /\ msg.algorithms = Absent <=> msg.stage = STAGE_PENG
    /\ msg.encrypted_payload = Absent <=> msg.stage = STAGE_PING

IsSequence(s) == Len(s) \in Nat /\ s = [i \in 1 .. Len(s) |-> s[i]]

ASSUME MessagesAssumption ==
    /\ \A msg \in Messages : IsMessage(msg) /\ msg # Absent
    /\ \A keys \in TrustedKeys : IsSequence(keys)
    /\ \A cells \in Leftovers : IsSequence(cells)

-----------------------------------------------------------------------------
AskMessage ==
    /\ About("nothing")
    /\ \E msg \in Messages, key \in PublicKeys, salt \in Salts, trusted \in TrustedKeys :
            question' = [about |-> "message", msg |-> msg, key |-> key, salt |-> salt,
                         trusted |-> trusted]

Writing == Unasked /\ [][AskMessage \/ AskAgain]_question

-----------------------------------------------------------------------------
(* InitMsg::read_from gives back what InitMsg::write_to has written and the *)
(* key that signed it, if that key is trusted, also when the buffer holds   *)
(* the rest of an older message behind it.  A message that is cut off or    *)
(* was signed with a key that is not trusted is refused.                    *)
MessageSurvivesTransport ==
    About("message") =>
        LET cells == write_to(question.msg, question.key, question.salt)
            trusted == \E i \in DOMAIN question.trusted : question.trusted[i] = question.key
            expected == IF trusted THEN Read(question.msg, question.key) ELSE Failed
        IN  /\ \A rest \in Leftovers \cup {<<>>} :
                    read_from(cells \o rest, question.trusted) = expected
            /\ \A n \in 0 .. Len(cells) - 1 :
                    read_from(SubSeq(cells, 1, n), question.trusted) = Failed
=============================================================================
