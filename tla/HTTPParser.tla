----------------------------- MODULE HTTPParser -----------------------------
(***************************************************************************)
(* http_parser.cpp on the Iterator of Buffer.  A function of the parser    *)
(* takes the buffer b and an iterator, and returns the iterator it leaves, *)
(* the string it read and rc: 0 parsed, 1 incomplete (the exception        *)
(* IncompleteInput), -1 error (ErrorInRequest).  A word is one character.  *)
(***************************************************************************)
EXTENDS Buffer

CONSTANT Length   \* a function from the words "Content-Length: n" to n

CR == "\r"
LF == "\n"
SP == " "
Slash == "/"

LOCAL Parsed(it, str) == [rc |-> 0, it |-> it, str |-> str]
LOCAL Incomplete(it) == [rc |-> 1, it |-> it, str |-> <<>>]
LOCAL ErrorInRequest(it) == [rc |-> -1, it |-> it, str |-> <<>>]

(* What comes after a call that returned r: an exception passes through. *)
Then(r, Rest(_)) == CHOOSE res \in {IF x.rc = 0 THEN Rest(x) ELSE x : x \in {r}} : TRUE

parseString(b, start) ==
    LET parse[it \in Iterator, res \in Seq(STRING)] ==
            IF eob(b, it) THEN Incomplete(it)
            ELSE IF getChar(b, it, LF) \in {SP, CR} THEN Parsed(it, res)
            ELSE parse[next(b, it), Append(res, getChar(b, it, LF))]
    IN  parse[start, <<>>]

(* Nothing looks whether there is a character after the carriage return. *)
AfterReturn(b, it, res, stale) ==
    IF getChar(b, it, stale) = LF THEN Parsed(next(b, it), res) ELSE ErrorInRequest(it)

parseLine(b, start, stale) ==
    LET parse[it \in Iterator, res \in Seq(STRING)] ==
            IF eob(b, it) THEN Incomplete(it)
            ELSE IF getChar(b, it, stale) = CR THEN AfterReturn(b, next(b, it), res, stale)
            ELSE parse[next(b, it), Append(res, getChar(b, it, stale))]
    IN  parse[start, <<>>]

skipChar(b, it, skip) ==
    IF eob(b, it) THEN Incomplete(it)
    ELSE IF getChar(b, it, LF) # skip THEN ErrorInRequest(it)
    ELSE Parsed(next(b, it), <<>>)

skipNewLine(b, it) ==
    IF eob(b, it) \/ eob(b, next(b, it)) THEN Incomplete(it)
    ELSE IF getChar(b, it, LF) # CR \/ getChar(b, next(b, it), LF) # LF
           THEN ErrorInRequest(it)
    ELSE Parsed(next(b, next(b, it)), <<>>)

(* Lines up to an empty one, and the last content length among them. *)
parseHeader(b, start, stale) ==
    LET parse[it \in Iterator, contentSize \in Nat] ==
            Then(parseLine(b, it, stale), LAMBDA line :
                 IF line.str = <<>>
                   THEN [rc |-> 0, it |-> line.it, contentSize |-> contentSize]
                   ELSE parse[line.it, IF line.str[1] \in DOMAIN Length
                                         THEN Length[line.str[1]] ELSE contentSize])
    IN  parse[start, 0]

(* The address is what the server looks at. *)
parseRequest(b, stale) ==
    Then(parseString(b, begin(b)), LAMBDA method :
    Then(skipChar(b, method.it, SP), LAMBDA space :
    Then(skipChar(b, space.it, Slash), LAMBDA slash :
    Then(parseString(b, slash.it), LAMBDA address :
    Then(skipChar(b, address.it, SP), LAMBDA blank :
    Then(parseString(b, blank.it), LAMBDA version :
    Then(skipNewLine(b, version.it), LAMBDA newline :
    Then(parseHeader(b, newline.it, stale), LAMBDA header :
         [rc |-> 0, it |-> header.it, address |-> address.str]))))))))

parseBody(b, start, contentSize) ==
    LET parse[it \in Iterator, left \in Nat, res \in Seq(STRING)] ==
            IF left = 0 THEN [rc |-> 0, it |-> it, body |-> res]
            ELSE parse[next(b, it), left - 1, Append(res, getChar(b, it, LF))]
    IN  parse[start, contentSize, <<>>]

(* Mutant: a body is taken for complete one byte early. *)
parseResponseEarly(b, stale) ==
    Then(parseLine(b, begin(b), stale), LAMBDA statusLine :
    Then(parseHeader(b, statusLine.it, stale), LAMBDA header :
         IF byteCount(b) - header.it.bytes_read_ + 1 < header.contentSize
           THEN Incomplete(header.it)
           ELSE parseBody(b, header.it, header.contentSize)))

parseResponse(b, stale) ==
    Then(parseLine(b, begin(b), stale), LAMBDA statusLine :
    Then(parseHeader(b, statusLine.it, stale), LAMBDA header :
         IF byteCount(b) - header.it.bytes_read_ < header.contentSize
           THEN Incomplete(header.it)
           ELSE parseBody(b, header.it, header.contentSize)))
=============================================================================
