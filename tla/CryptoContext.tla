---------------------------- MODULE CryptoContext ----------------------------
(***************************************************************************)
(* The encryption of a session of the server's own protocol,               *)
(* network/cccam3_protocol.c: a context per end of a connection, what it   *)
(* does to a payload and how the messages are built and taken apart.       *)
(*                                                                         *)
(* A payload is its length and what it says; encrypted, it also carries    *)
(* the key and the number of the message it was encrypted with: the        *)
(* counter of the CBC and GCM modes, the position of RC4's key stream.     *)
(* Only GCM can tell a wrong key or number; the other modes decrypt to     *)
(* noise.                                                                  *)
(***************************************************************************)
EXTENDS Integers

CONSTANTS NoKey,      \* the zeros of a context in mode NONE
          Allowed     \* g_allowed_crypt_modes: modes admitted besides NONE

Mode == {"NONE", "RC4", "AES", "3DES", "AES_GCM"}

HeaderSize == 12     \* CCCAM3_HEADER_SIZE
BufferSize == 4096   \* CCCAM3_BUFFER_SIZE
TagLen == 16         \* GCM_TAG_LEN

\* cccam_protocol_reset_crypto
ResetCrypto == [mode |-> "NONE", key |-> NoKey, tx |-> 0, rx |-> 0]

\* cccam_protocol_set_crypto takes the key if the mode is allowed and the key
\* of its length.
KeyFits(mode, len) ==
    CASE mode = "RC4"               -> len \in 1..32
      [] mode \in {"AES", "AES_GCM"} -> len \in {16, 24, 32}
      [] mode = "3DES"              -> len = 24
      [] OTHER                      -> TRUE
CanSet(mode, len) == (mode = "NONE" \/ mode \in Allowed) /\ KeyFits(mode, len)
SetCrypto(mode, key) == IF mode = "NONE" THEN ResetCrypto
                        ELSE [ResetCrypto EXCEPT !.mode = mode, !.key = key]

-----------------------------------------------------------------------------
\* cccam_protocol_encrypt refuses a length its mode cannot take, and GCM a
\* buffer without room for the tag.
CanEncrypt(ctx, len, capacity) ==
    /\ len > 0
    /\ CASE ctx.mode = "AES"     -> len % 16 = 0
         [] ctx.mode = "3DES"    -> len % 8 = 0
         [] ctx.mode = "AES_GCM" -> capacity >= len + TagLen
         [] OTHER                -> TRUE

\* Each encrypted message takes the next number, and each decrypted one.
Sent(ctx) == IF ctx.mode = "NONE" THEN ctx ELSE [ctx EXCEPT !.tx = @ + 1]
Received(ctx) == IF ctx.mode = "NONE" THEN ctx ELSE [ctx EXCEPT !.rx = @ + 1]

\* What goes over the wire: a message without payload is not encrypted.
Plain(id, body) == [id |-> id, body |-> body, key |-> NoKey, n |-> 0]
Message(ctx, id, body) ==
    IF ctx.mode = "NONE" THEN Plain(id, body)
    ELSE [id |-> id, body |-> body, key |-> ctx.key, n |-> ctx.tx]
Bare(id) == Plain(id, "none")
HasPayload(msg) == msg.body # "none"

\* cccam_protocol_decrypt: the IV and the nonce are made of the message's id
\* and the receiver's own counter; only GCM notices that they do not fit.
Opens(ctx, msg) == msg.key = ctx.key /\ msg.n = ctx.rx
CanDecrypt(ctx, msg) == ctx.mode = "AES_GCM" => Opens(ctx, msg)

\* Mutant: a message without payload counts as well.
ParsedCounting(ctx, msg) == Received(ctx)

\* cccam_protocol_parse: the context after a message, and whether it is taken.
Parsed(ctx, msg) == IF HasPayload(msg) THEN Received(ctx) ELSE ctx
CanParse(ctx, msg) == HasPayload(msg) => CanDecrypt(ctx, msg)

-----------------------------------------------------------------------------
(* The lengths of the payloads that the builders make; the tag has its     *)
(* room in the message.                                                    *)
WithTag(ctx, len) == IF ctx.mode = "AES_GCM" THEN len + TagLen ELSE len

Fits(payload) == HeaderSize + payload <= BufferSize

\* cccam_protocol_build_ecm, _emm and _cw encrypt the payload in its place:
\* with the tag's room counted as payload, and no room beyond it.
CanBuild(ctx, len) ==
    LET payload == WithTag(ctx, len)
    IN  Fits(payload) /\ (ctx.mode # "NONE" => CanEncrypt(ctx, payload, payload))

EcmLen(n) == 2 + 2 + 2 + n
EmmLen(n) == 2 + 2 + n
CwLen == 4 + 16 + 1 + 2 + 2 + 2

\* A client of another make that leaves room for the tag.
CanBuildElsewhere(ctx, len) ==
    /\ Fits(WithTag(ctx, len))
    /\ ctx.mode # "NONE" => CanEncrypt(ctx, len, WithTag(ctx, len))
=============================================================================
