----------------------------- MODULE InetParser -----------------------------
(***************************************************************************)
(* php_driver_parse_ip_address (util/inet.c): the parser behind Inet's     *)
(* constructor, as the function from one turn of its loop to the next.     *)
(* A token stands for its characters: a hexadecimal field, a decimal one   *)
(* that is an IPv4 byte or is not (above 255 or with a leading zero), a    *)
(* separator.  The bytes of the token at position i are 2i and 2i + 1 as   *)
(* an IPv6 field and -i as an IPv4 byte, so that no two can be mistaken.   *)
(***************************************************************************)
EXTENDS Integers, Sequences

CONSTANTS V6Length, V4Length  \* CASS_INET_V6_LENGTH and CASS_INET_V4_LENGTH

ASSUME LengthsAssumption == V6Length \in Nat /\ V6Length % 2 = 0 /\ V4Length \in 2 .. V6Length - 1

Tokens == {"end", "colon", "dot", "hex", "dec", "dec_big", "illegal"}
Decimals == {"dec", "dec_big"}

\* text: the tokens; in: tokens consumed; top: the highest index written.
NewParser == [state |-> "start", pos |-> -1, compress |-> -1, ipv4 |-> -1,
              addr |-> [i \in 0 .. V6Length - 1 |-> 0], len |-> 0,
              text |-> <<>>, in |-> 0, top |-> -1]

Finished(p) == p.state \in {"accepted", "rejected"}
Reject(p) == [p EXCEPT !.state = "rejected"]

Write(p, i, b) == [p EXCEPT !.addr = [j \in DOMAIN @ |-> IF j = i THEN b ELSE @[j]],
                            !.top = IF i > @ THEN i ELSE @]

Inflated_OffByOne(p) ==
  [i \in 0 .. V6Length - 1 |->
     IF i < p.compress THEN p.addr[i]
     ELSE IF i < V6Length - (p.pos - p.compress) THEN 0 ELSE p.addr[i - (V6Length - (p.pos + 1))]]

\* The end of the loop: inflate "::", and check the length.
Inflated(p) ==
  LET moved == p.pos + 1 - p.compress
  IN  [i \in 0 .. V6Length - 1 |->
         IF i < p.compress THEN p.addr[i]
         ELSE IF i < V6Length - moved THEN 0 ELSE p.addr[i - (V6Length - (p.pos + 1))]]

Finish(p) ==
  CASE p.len = V4Length   -> [p EXCEPT !.state = "accepted"]
    [] p.len # V4Length /\ p.compress # -1 ->
         IF p.pos + 1 >= V6Length THEN Reject(p)
         ELSE [p EXCEPT !.addr = Inflated(p), !.len = V6Length, !.state = "accepted"]
    [] OTHER -> IF p.pos + 1 # V6Length THEN Reject(p)
                ELSE [p EXCEPT !.len = V6Length, !.state = "accepted"]

\* FIELD: an IPv6 field, or the end of the text directly after "::".
Field(p, tok) ==
  IF tok = "end" /\ p.pos + 1 = p.compress THEN Finish(p)
  ELSE IF tok \notin {"hex"} \cup Decimals THEN Reject(p)
  ELSE IF p.pos + 3 > V6Length THEN Finish([p EXCEPT !.pos = @ + 2])
  ELSE [Write(Write(p, p.pos + 1, 2 * p.in), p.pos + 2, 2 * p.in + 1)
          EXCEPT !.pos = @ + 2, !.state = IF tok = "hex" THEN "afterhex" ELSE "afterdec"]

\* COMPRESSED: the second colon of "::", of which there can be one.
Compressed(p, tok) ==
  IF tok # "colon" \/ p.compress # -1 THEN Reject(p)
  ELSE [p EXCEPT !.compress = p.pos + 1, !.state = "field"]

Start(p, tok) == IF tok = "colon" THEN [p EXCEPT !.state = "compressed"]
                 ELSE IF tok \in {"hex"} \cup Decimals THEN Field(p, tok) ELSE Reject(p)

AfterColon(p, tok) == IF tok = "colon" THEN Compressed(p, tok) ELSE Field(p, tok)

AfterHex(p, tok) == CASE tok = "end"   -> Finish(p)
                      [] tok = "colon" -> [p EXCEPT !.state = "aftercolon"]
                      [] OTHER         -> Reject(p)

\* AFTERDEC: a dot takes the field back and reads it again as an IPv4 byte.
AfterDec(p, tok) ==
  IF tok = "dot"
  THEN [Write(Write(p, p.pos, 0), p.pos - 1, 0)
          EXCEPT !.pos = @ - 2, !.in = @ - 2, !.state = "ipv4byte", !.ipv4 = 0]
  ELSE AfterHex(p, tok)

Ipv4Byte(p, tok) ==
  IF tok # "dec" THEN Reject(p)
  ELSE IF p.pos + 2 > V6Length THEN Finish([p EXCEPT !.pos = @ + 1])
  ELSE LET q == [Write(p, p.pos + 1, -p.in) EXCEPT !.pos = @ + 1, !.ipv4 = @ + 1]
       IN  IF q.ipv4 < V4Length THEN [q EXCEPT !.state = "ipv4dot"]
           ELSE [q EXCEPT !.state = "end",
                          !.len = IF q.compress = -1 /\ q.pos + 1 = V4Length THEN V4Length ELSE 0]

Ipv4Dot(p, tok) == IF tok = "dot" THEN [p EXCEPT !.state = "ipv4byte"] ELSE Reject(p)
End(p, tok) == IF tok = "end" THEN Finish(p) ELSE Reject(p)

\* ip_address_tokenize: the next token, one written before or a new one.
NextTokens(p) == IF p.in < Len(p.text) THEN {p.text[p.in + 1]} ELSE Tokens

\* One turn of the loop of php_driver_parse_ip_address.
ParseStep(p, tok) ==
  LET q == [p EXCEPT !.in = @ + 1,
                     !.text = IF p.in < Len(@) THEN @ ELSE Append(@, tok)]
  IN  CASE tok = "illegal"        -> Reject(q)
        [] OTHER ->
           CASE p.state = "start"      -> Start(q, tok)
             [] p.state = "aftercolon" -> AfterColon(q, tok)
             [] p.state = "compressed" -> Compressed(q, tok)
             [] p.state = "field"      -> Field(q, tok)
             [] p.state = "afterhex"   -> AfterHex(q, tok)
             [] p.state = "afterdec"   -> AfterDec(q, tok)
             [] p.state = "ipv4byte"   -> Ipv4Byte(q, tok)
             [] p.state = "ipv4dot"    -> Ipv4Dot(q, tok)
             [] p.state = "end"        -> End(q, tok)

\* php_driver_format_address: the tokens of the text it writes.
php_driver_format_address(len) ==
  IF len > V4Length
  THEN [i \in 1 .. V6Length - 1 |-> IF i % 2 = 1 THEN "hex" ELSE "colon"]
  ELSE [i \in 1 .. 2 * V4Length - 1 |-> IF i % 2 = 1 THEN "dec" ELSE "dot"]
=============================================================================
