----------------------------- MODULE PrefixFilter -----------------------------
(***************************************************************************)
(* The filters of                                                          *)
(* `8 nginx module/nginx_filter_module_my/ngx_http_filter_module_my.c`,    *)
(* which ngx_http_mxl_filter_init puts in front of those of nginx: nginx   *)
(* calls the first once a response, and the second for each chain of       *)
(* buffers of its body.  A chain is a sequence of parts.  The directive    *)
(* `prefix` is read into `enable`, at which no filter looks.               *)
(***************************************************************************)
EXTENDS Integers, Sequences

NGX_HTTP_OK == 200

\* prefix.len, of "<h2>mxl<h2>"
PrefixLen == 11

\* The length that is announced, where n is content_length_n: -1 if not known.
ngx_http_mxl_header_filter(status, n) == IF status = NGX_HTTP_OK THEN n + PrefixLen ELSE n

\* The chain that is passed on; nginx also calls with an empty chain, to send
\* what a slow client has not taken yet.
ngx_http_mxl_body_filter(chain) == <<"prefix">> \o chain
===============================================================================
