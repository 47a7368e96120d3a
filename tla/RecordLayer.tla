---------------------------- MODULE RecordLayer ----------------------------
(***************************************************************************)
(* The SSLv3 record layer of src/src/crypto.rs (`Record`) as pure          *)
(* operators.  What the cipher computes is abstracted to what the two ends *)
(* must agree on for a record to be readable: the key block (named by the  *)
(* session), the send sequence number that enters the MAC, and the CBC     *)
(* chaining value, which is the last ciphertext block of the record before *)
(* it in the same direction.                                               *)
(*                                                                         *)
(* A session is the pair <<c, s>> of the client's and the server's nonce:  *)
(* both random strings and the premaster enter the key block, so two ends  *)
(* hold the same keys exactly when they hold the same pair.                *)
(***************************************************************************)
EXTENDS Naturals

Session == Nat \X Nat
NoSession == <<0, 0>>

(* The last ciphertext block of a host record, named by what determines it *)
(* within one key block: the record's sequence number and its plaintext.   *)
(* KeyIV is the initial block taken from the key block itself.             *)
Block == Nat \X Nat
KeyIV == <<0, 0>>

(* The last ciphertext block of the n-th record the sensor sent in a       *)
(* session; n = 0 is the initial block of that session's key block.        *)
ServerBlock == Session \X Nat

Record == [sess : Session, sseq : Nat, civ : Block, siv : ServerBlock]

(* Record::new                                                             *)
NewRecord(s) == [sess |-> s, sseq |-> 0, civ |-> KeyIV, siv |-> <<s, 0>>]

(* What the host puts on EP1 OUT.  kind "data" is an in-session record;    *)
(* "flight" is the client's last handshake flight, of which the encrypted  *)
(* Finished record is the part the model tells apart; "init" and "hello"   *)
(* are the plaintext steps before it.  body is the plaintext: the issue    *)
(* number of a command, or the index of an init step.                      *)
Wire == [kind : {"init", "hello", "flight", "data"},
         sess : Session, seq : Nat, iv : Block, body : Nat]

TailOf(w) == <<w.seq + 1, w.body>>

(* Record::encrypt: the wire record, and the state it leaves behind.       *)
Encrypted(rec, kind, body) ==
    [kind |-> kind, sess |-> rec.sess, seq |-> rec.sseq,
     iv |-> rec.civ, body |-> body]

(* Variant: the chaining value is not carried to the next record.          *)
AfterEncryptUnchained(rec, body) ==
    [sess |-> rec.sess, sseq |-> rec.sseq + 1, civ |-> rec.civ, siv |-> rec.siv]

AfterEncrypt(rec, body) ==
    [sess |-> rec.sess, sseq |-> rec.sseq + 1,
     civ |-> <<rec.sseq + 1, body>>, siv |-> rec.siv]

(* What the sensor puts on EP1 IN.  n counts the encrypted records of the  *)
(* session sess; a plaintext item has n = 0.  body is the number of the    *)
(* command a reply answers, or the index of the init step.                 *)
Item == [kind : {"init", "hello", "flight", "data", "alert", "zeros"},
         sess : Session, n : Nat, body : Nat]

IsCiphertext(item) == item.n > 0

(* Items whose header passes decrypt's three checks although their body is *)
(* not a whole number of cipher blocks: decrypt splits the body in 16-byte *)
(* chunks and panics on the last one.                                      *)
Panics(item) ==
    \/ item.kind \in {"hello", "flight"}
    \/ item.kind = "alert" /\ ~IsCiphertext(item)

(* Record::decrypt: an item that is no record (init replies, the zero      *)
(* bytes of a dead session) is refused before anything changes; any other  *)
(* moves the receive chain to its last block, readable or not.             *)
AfterDecrypt(rec, item) ==
    IF IsCiphertext(item) THEN [rec EXCEPT !.siv = <<item.sess, item.n>>]
                          ELSE rec

(* Whether decrypt returns the plaintext the sensor encrypted: right keys, *)
(* and the chain stands at the record just before.                         *)
Readable(rec, item) ==
    /\ IsCiphertext(item)
    /\ rec.sess = item.sess
    /\ rec.siv = <<item.sess, item.n - 1>>
=============================================================================
