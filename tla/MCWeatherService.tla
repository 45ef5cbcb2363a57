-------------------------- MODULE MCWeatherService --------------------------
EXTENDS WeatherService, TLC

CONSTANTS kyiv, Kyiv

\* Two spellings of one city.
CityOf == kyiv :> "kyiv" @@ Kyiv :> "kyiv"

\* BuildProviders: WeatherAPI before TomorrowIO, with the longer TTL.
Order == <<"WeatherAPI", "TomorrowIO">>
Times == <<2, 1>>

RequestSymmetry == Permutations(Requests)
=============================================================================
