-------------------------------- MODULE Seal ---------------------------------
(***************************************************************************)
(* A message on its way: msg_sent pads, encrypts and puts a header before  *)
(* it; the recv thread and data_distribution take it out of recv_buf and   *)
(* decrypt it.  A character is a number, 0 ends a text.  AES-CBC (OpenSSL, *)
(* external) takes whole blocks, each byte as long encrypted as it was.    *)
(***************************************************************************)
EXTENDS Naturals, Sequences, SequencesExt

CONSTANTS
    Block,      \* AES_128_BLOCK_SIZE
    BufLen,     \* MAX_BUF_LEN, what recv_buf has room for
    HeaderLen,  \* ELINK_HEADER_LEN: the flag, then the length, half of it each
    NoKey,      \* p_shared_key == NULL
    Flag,       \* a byte of the flag, or of a text that was never encrypted
    Overrun     \* what comes of a body that is written over what is behind recv_buf

(* A byte on the wire. *)
Byte(key, char) == [key |-> key, char |-> char]
Plain(s) == [i \in DOMAIN s |-> Byte(NoKey, s[i])]
Zeros(n) == [i \in 1..n |-> 0]

(* A C string: what is before the first 0. *)
CString(s) == LET end == SelectInSeq(s, LAMBDA ch : ch = 0)
              IN  IF end = 0 THEN s ELSE SubSeq(s, 1, end - 1)

-----------------------------------------------------------------------------
(* do_aes_cbc_crypt without padding: EVP_CipherUpdate gives the whole      *)
(* blocks, and what is left over is dropped, for a failed Final that wrote *)
(* nothing is not taken for an error.                                      *)
WholeBlocks(s) == SubSeq(s, 1, Len(s) - (Len(s) % Block))

Encrypt(key, s) == LET whole == WholeBlocks(s) IN [i \in DOMAIN whole |-> Byte(key, whole[i])]

Decrypt(key, bytes) ==
    LET whole == WholeBlocks(bytes)
    IN  [i \in DOMAIN whole |-> IF whole[i].key = key THEN whole[i].char ELSE Flag]

-----------------------------------------------------------------------------
PadLen_Remainder(n) == n + (n % Block)

PadLen(n) == IF n % Block = 0 THEN n ELSE n + Block - (n % Block)

(* calloc leaves zeros behind the message. *)
Padded(msg) == msg \o Zeros(PadLen(Len(msg)) - Len(msg))

Header(n) == [i \in 1..HeaderLen |-> IF i <= HeaderLen \div 2 THEN Flag
                                     ELSE IF i = HeaderLen THEN n ELSE 0]

msg_sent(key, msg) ==
    LET body == IF key = NoKey THEN Plain(CString(msg)) ELSE Encrypt(key, Padded(msg))
    IN  [header |-> Header(Len(body)), body |-> body]

-----------------------------------------------------------------------------
check_msg_header(header) == header[HeaderLen]

(* The body is read over the header: a shorter one leaves its end behind.  *)
(* One that fills recv_buf is ended by the first byte of msg_len, a 0.     *)
recv_buf(frame) ==
    frame.body \o Plain(SubSeq(frame.header, Len(frame.body) + 1, HeaderLen))

(* The text that is parsed; none is no text.  A longer body than recv_buf   *)
(* holds is written over msg_len, link_state and dhkey: no text is sure.   *)
data_distribution(key, frame) ==
    LET msg_len == check_msg_header(frame.header)
        chars   == [i \in DOMAIN recv_buf(frame) |->
                       IF recv_buf(frame)[i].key = NoKey THEN recv_buf(frame)[i].char ELSE Flag]
    IN  IF msg_len > BufLen THEN Overrun
        ELSE IF key = NoKey THEN CString(chars)
        ELSE CString(Decrypt(key, SubSeq(recv_buf(frame), 1, msg_len)))
=============================================================================
