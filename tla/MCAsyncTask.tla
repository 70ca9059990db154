---------------------------- MODULE MCAsyncTask ----------------------------
(* Model-checking instance of AsyncTask: more tasks than threads, so that  *)
(* a request waits in the queue while others work.                         *)
EXTENDS AsyncTask
=============================================================================
