----------------------------- MODULE TodoViews ------------------------------
(***************************************************************************)
(* accounts/views.py of the todo site (2022/DB/1006/03_db): the views of   *)
(* the workshop site in a project that has no app named 'articles', so     *)
(* redirect('articles:index') raises NoReverseMatch.  logout has no URL.   *)
(***************************************************************************)
EXTENDS AccountViews

Home == "NoReverseMatch"

\* login: a ?next= in the URL is where the redirect goes.
TodoLogin(b) == site = "todo" /\ LoginForm(b, Home, {Home, "redirect"})

TodoSignup(b) == site = "todo" /\ SignupForm(b, Home)

TodoStep(b) == TodoLogin(b) \/ TodoSignup(b)
=============================================================================
