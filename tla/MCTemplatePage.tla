--------------------------- MODULE MCTemplatePage ---------------------------
(***************************************************************************)
(* Instance of TemplatePage for TLC: buffers from one cell to more than    *)
(* any page needs, and templates that use every kind of variable.          *)
(***************************************************************************)
EXTENDS TemplatePage

Part(pieces, tail) == [pieces |-> pieces, tail |-> tail]
P(text, var) == [text |-> text, var |-> var]

\* The shipped page: values, the body of the reply, a tail.
Shipped == [page  |-> Part(<<P(2, "Width"), P(1, "Name"), P(1, "ResStr")>>, 1),
            none  |-> Part(<<>>, 2),
            error |-> Part(<<>>, 3),
            res   |-> Part(<<>>, 1)]

R(text, field, method) == P(text, [field |-> field, method |-> method])
Total == R(1, "result_head_total_num", "uint_to_uint")

\* A list of results with a separator that is taken back, and page links.
Listing == [page  |-> Part(<<P(0, "Results"), P(0, "Backspace"), P(1, "PageNum")>>, 0),
            none  |-> Part(<<P(0, "Backspace"), P(1, "Other"), P(0, "Name")>>, 0),
            error |-> Part(<<P(0, "Width"), P(0, "Backspace")>>, 0),
            res   |-> Part(<<Total>>, 1)]

\* Results with the numbers that are written in other ways.
Numbers == [Listing EXCEPT !.res =
  Part(<<R(0, "result_head_total_num", "uint_to_total_number_str"),
         R(1, "result_head_total_num", "uint_to_time_str"),
         R(0, "result_node_attr_int", "uint_to_total_number_str"),
         R(0, "result_head_total_num", "uint_to_flag")>>, 0)]

\* Results with one more variable: what is written in still other ways, what cannot
\* be written, and what is not known soon enough.
Other == {[Listing EXCEPT !.res = Part(<<Total, R(0, f[1], f[2])>>, 0)] :
  f \in {<<"result_node_key1", "uint_to_uint">>, <<"result_node_abstract", "str_to_str">>,
         <<"result_node_abstract", "str_uri_encode">>, <<"result_node_abstract", "uint_to_uint">>,
         <<"result_head_total_num", "uint_to_time_used">>,
         <<"result_head_total_num", "uint_to_language_str">>,
         <<"as_request_sort_field", "uint_to_total_number_str">>,
         <<"result_head_total_num", "str_to_str">>, <<"result_head_return_num", "uint_to_uint">>,
         <<"as_request_query", "str_to_str">>, <<"result_node_0", "uint_to_uint">>,
         <<"result_node_attr_discrete", "uint_to_uint">>, <<"field_type_url", "not_need_field">>}}

SomeTemplates == {Shipped, Listing, Numbers} \cup Other

SomeSizes == 1..24 \cup {48, 72, 96}

\* The least int is 536870912 here: TLC has no number above an int of its own.
SomeRequests ==
  [page_no : {0, 1, 3, 7, 20}, rn : {0, 1, 60}, total_num : {0, 3, 14, 999999999},
   return_num : {0, 2}, len : {0, 5}, unset : {7, 12345, 536870912}, known : BOOLEAN]
=============================================================================
