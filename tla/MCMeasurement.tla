---------------------------- MODULE MCMeasurement ----------------------------
(***************************************************************************)
(* Measurement with answers and reports to check it with.                  *)
(***************************************************************************)
EXTENDS Measurement

LOCAL Answer(hdr, body) == [hdr |-> hdr, body |-> body]

\* Units of text.
LOCAL Unit(words, number) == [words |-> words, number |-> number]
LOCAL Plain == Unit({}, 0)
LOCAL Ok == Unit({"200-OK"}, 0)
LOCAL End == Unit({"empty-line"}, 0)
LOCAL OkSized(n) == Unit({"200-OK", "Content-Length"}, n)
LOCAL SizedEnd(n) == Unit({"Content-Length", "empty-line"}, n)
LOCAL All(n) == Unit({"200-OK", "Content-Length", "empty-line"}, n)

\* Honest ones: a header of one unit, and one that fills the buffer.
HonestAnswers == {Answer(<<All(1)>>, <<Plain>>), Answer(<<OkSized(0), End>>, <<>>)}

\* A status other than 200, a header that is too long, and a body that is too short.
Failures == {Answer(<<SizedEnd(1)>>, <<Plain>>),
             Answer(<<OkSized(0), Plain, End>>, <<>>),
             Answer(<<All(2)>>, <<Plain>>)}

\* No length; one that an unsigned int makes 1; "200-OK" in the body of a
\* failure; and more body than announced, with nothing in it, a 0, an empty
\* line, or a whole second response.
MisleadingAnswers == {Answer(<<Unit({"200-OK", "empty-line"}, 0)>>, <<>>),
                      Answer(<<All(UInt + 1)>>, <<Plain>>),
                      Answer(<<SizedEnd(1)>>, <<Ok>>)}
                     \cup {Answer(<<All(0)>>, <<u>>) :
                             u \in {Plain, Unit({"nul"}, 0), End, All(0)}}

MCAnswers == HonestAnswers \cup Failures \cup MisleadingAnswers

\* A slave that has connected quickly and had no answer.
MCOtherReports == {[NoReport EXCEPT !.avgCT = 1, !.avgRT = 1, !.avgCRT = Inf, !.errors = 1]}
=============================================================================
